---------------------------- MODULE Spec2Model ----------------------------
(***************************************************************************)
(* A model of the runtime core of luckypot:                                *)
(*   - the cooperative script scheduler (luckypot/object.py, Scriptable),  *)
(*     stepped by the frame driver through State.logic;                    *)
(*   - the scene stack machine (luckypot/state_machine.py, StateMachine).  *)
(* The two parts have their own specification (SchedSpec, StackSpec); each *)
(* leaves the variables of the other part unchanged.                       *)
(***************************************************************************)
EXTENDS Integers, Sequences, FiniteSets, TLC

(***************************************************************************)
(* Bounds of the model.                                                    *)
(***************************************************************************)
\* Number of routine (generator) identities available to one Scriptable.
MaxRoutines == 3
\* Number of logic() passes (frames) the frame driver runs.
MaxPasses == 3
\* Number of add_script() calls one resumption of a routine may make.
MaxAdds == 2

\* Number of scene instances the application constructs.
NScenes == 3
\* Depth of the scene stack beyond which no scene asks for a push.
MaxDepth == 2

\* Number of entity instances one scene gets, its Debug entity included.
MaxEntities == 3

Routines == 1 .. MaxRoutines
Scenes == 1 .. NScenes
\* Python's None, as the scene of a transition descriptor.
None == 0
Entities == 1 .. MaxEntities
\* The Debug entity State.__init__ adds to every scene, and its depth key.
debug == 1
DebugZ == 1000000000
\* Largest lifespan a builder is given, and most closures registered on one particle.
MaxLifespan == 7
MaxAnims == 2

\* Most particles the engine holds, and most fountains.
MaxParticles == 3
MaxFountains == 2

\* Python floats are IEEE 754 binary64: 53 significant binary digits.
MaxDuration == 4
Precision == 53

\* Binary digits after the point kept by the model of a float.
FracBits == 60

\* The depth keys (Z) of the other entity classes.
ZKeys == {-1, 0}
\* The particle layer, as an item of the draw order.
Particles == 0

VARIABLES
    \* ---- Scriptable (object.py) ----
    scripts,          \* self.scripts: the live set
    scripts_to_add,   \* self.scripts_to_add: the pending-addition buffer
    script_add_lock,  \* self.script_add_lock
    to_remove,        \* local to_remove of logic()
    visited,          \* routines the for loop of logic() has already yielded
    gen,              \* each generator: "unborn", "suspended", "finished", "faulted"
    \* ---- frame driver (app.py, state_machine.py State.logic) ----
    pc,               \* position of the frame driver
    timer,            \* State.timer
    frameWork,        \* the steps of the frame protocol executed in the current frame
    raised,           \* the routine whose fault is propagating (0: none)
    active,           \* the scene is the top of the stack
    lastCall,         \* the last of logic, paused_logic, on_exit, on_resume it received
    timerAt,          \* State.timer when that call began
    received,         \* the kinds of call it has received
    \* ---- history of the scheduler ----
    passNo,           \* number of logic() passes started
    liveAtStart,      \* the live set when the pass started (kept until State.logic goes on)
    resumedInPass,    \* per routine: number of next() calls in the pass (kept as liveAtStart)
    regPass,          \* per routine: the pass it was buffered in (0: none), -1: added outside a pass
    firstPass,        \* per routine: the pass of its first next() (0: never)
    stopPass,         \* per routine: the pass in which it completed naturally (0: not yet)
    merges,           \* per routine: number of times it was merged from the buffer into the live set
    \* ---- StateMachine and its scenes (state_machine.py) ----
    stack,            \* StateMachine.stack, the active scene last
    next_state,       \* per scene: State.next_state, the pending transition (op, new)
    paused,           \* per scene: State.debug.paused
    \* ---- history of the stack machine ----
    hooks,            \* the hook calls of the last application of the state setter, in order
    lastOp,           \* the descriptor the setter was last applied to
    prevOp,           \* the descriptor of the application before the last
    prevStack,        \* the stack before the last application
    prev2Stack,       \* the stack before the application before the last
    lastHook,         \* per scene: the last hook invoked on it ("none": not yet entered)
    reused,           \* a push or replace was given a scene that had been on the stack before
    error,            \* the exception the last application of the setter raised ("none": none)
    \* ---- host loop (app.py, App.run) ----
    lpc,              \* position of App.run in its loop
    calls,            \* the scene methods invoked since the last transition, in order
    requested,        \* the transition the active scene last asked for in the current frame
    applied,          \* the descriptor the last go_to_next_state() handed to the setter
    earlier,          \* the operation of the request of the frame that a later request replaced
    \* ---- one scene and its entities (state_machine.py, State) ----
    objects,          \* State.objects: the live collection
    add_later,        \* State.add_later: the queued entities
    add_object_lock,  \* State.add_object_lock
    alive,            \* per entity: Object.alive
    Z,                \* per entity: its depth key
    made,             \* the entity instances constructed so far
    spc,              \* position of the scene in its frame
    dead_found,       \* local to_remove of State.logic
    cleaned,          \* entities the cleanup loop has already yielded
    \* ---- history of the scene ----
    steps,            \* the steps of State.logic done in the current call, in order
    logicked,         \* entities that received logic() in the current frame
    drawn,            \* the draw order of the current frame (entities, Particles)
    queued,           \* per entity: add() queued it in the current frame ("now"), in an
                      \* earlier frame ("before"), or did not queue it ("no")
    selfKilled,       \* entities whose own logic() cleared their alive flag in the current frame
    deaths,           \* per entity: number of on_death() calls
    \* ---- State.create_inputs, run by on_resume ----
    declared,         \* per entity: the names of the bindings its create_inputs() returns
    inputs,           \* the bindings collected: pairs (name, owner), owner None for the scene
    ci_left,          \* entities the loop of create_inputs has still to yield
    ci_pc,            \* "idle", "loop", "resumed" or "ValueError"
    \* ---- ParticleSystem, its particles and fountains (particles.py) ----
    draft,            \* the particle a Builder is working on
    drafting,         \* a Builder is open
    parts,            \* per particle identity: the particle object (kept after its removal)
    psys,             \* the ParticleSystem: the set of the particles it holds
    fountains,        \* ParticleSystem.fountains
    \* ---- history of the engine ----
    elog,             \* the steps of the last ParticleSystem.logic(), in order
    emitted,          \* per fountain: the particles it added in the last logic()
    pdrawn,           \* the particles ParticleSystem.draw() drew since the last logic()
    \* ---- utils.py: Cooldown, angle_towards ----
    locked_for,       \* Cooldown.locked_for
    lockedBefore,     \* locked_for when the last method of the cooldown was called
    lockDur,          \* the argument of the last lock_for
    cdCall,           \* the last method of the cooldown called
    aStart,           \* the arguments of the last angle_towards
    aGoal,
    aMax,
    aResult,          \* what it returned
    \* ---- Scriptable.do_later (object.py) ----
    laterN,           \* per routine: nb_of_frames of the do_later that made it (-1: none did)
    laterLeft,        \* the yields "yield from range(nb_of_frames)" has still to make
    laterAt,          \* the logic() passes begun when do_later was called
    laterRes,         \* the resumptions of the routine so far
    funcCalls,        \* the calls of the decorated function so far
    \* ---- the routines of the entities of a scene ----
    oLeft,            \* per entity: the yields its do_later routine has still to make (-1: it has none)
    oFired,           \* per entity: the calls of the function of its do_later
    oGen,             \* per entity: its do_later generator: "none", "suspended", "finished", "closed"
    \* ---- App.quit (app.py) ----
    qpc,              \* "running", "popping" (in the loop of quit), "exited"
    qstack,           \* the stack when quit was called
    qlog,             \* the hooks called since quit was called, in order
    \* ---- StateTransition (state_transitions.py) ----
    tDuration,        \* per transition scene: self.duration, in frames
    tTimer,           \* per transition scene: self.timer
    tCalls,           \* per transition scene: the logic() calls it got since it was constructed
    tFirst            \* per transition scene: the logic() call that first called replace_state (0: none yet)

schedVars == << scripts, scripts_to_add, script_add_lock, to_remove, visited, gen,
                pc, timer, frameWork, raised, passNo, liveAtStart, resumedInPass,
                regPass, firstPass, stopPass, merges, active, lastCall, timerAt,
                received >>

\* The history of the calls the scene receives from the frame driver.
callVars == << active, lastCall, timerAt, received >>

stackVars == << stack, next_state, paused, hooks, lastOp, prevOp, prevStack, prev2Stack,
               lastHook, reused, error >>

loopVars == << lpc, calls, requested, applied, earlier >>

sceneVars == << objects, add_later, add_object_lock, alive, Z, made, spc, dead_found,
               cleaned, steps, logicked, drawn, queued, selfKilled, deaths >>

inputVars == << declared, inputs, ci_left, ci_pc >>

partVars == << draft, drafting, parts, psys, fountains, elog, emitted, pdrawn >>

utilVars == << locked_for, lockedBefore, lockDur, cdCall, aStart, aGoal, aMax, aResult >>

laterVars == << laterN, laterLeft, laterAt, laterRes, funcCalls >>

ownVars == << oLeft, oFired, oGen >>

quitVars == << qpc, qstack, qlog >>

transVars == << tDuration, tTimer, tCalls, tFirst >>

\* What the actions of one part leave alone.
notSched == << stackVars, loopVars, sceneVars, inputVars, partVars, utilVars, laterVars, ownVars, quitVars, transVars >>
notStack == << schedVars, loopVars, sceneVars, inputVars, partVars, utilVars, laterVars, ownVars, quitVars, transVars >>
notLoop == << schedVars, sceneVars, inputVars, partVars, utilVars, laterVars, ownVars, quitVars, transVars >>
notScene == << schedVars, stackVars, loopVars, inputVars, partVars, utilVars, laterVars, ownVars, quitVars, transVars >>
notInput == << schedVars, stackVars, loopVars, partVars, utilVars, laterVars, ownVars, quitVars, transVars >>
notPart == << schedVars, stackVars, loopVars, sceneVars, inputVars, utilVars, laterVars, ownVars, quitVars, transVars >>
notUtil == << schedVars, stackVars, loopVars, sceneVars, inputVars, partVars, laterVars, ownVars, quitVars, transVars >>

vars == << schedVars, stackVars, loopVars, sceneVars, inputVars, partVars, utilVars,
          laterVars, ownVars, quitVars, transVars >>

(***************************************************************************)
(* Scriptable                                                              *)
(***************************************************************************)

\* add_script without the lock test: every routine goes straight to the live set.
add_script_unlocked(live, buffer, lock, g) ==
    [scripts |-> live \cup {g}, scripts_to_add |-> buffer]

\* Scriptable.add_script: the buffer while the lock is held, the live set otherwise.
\* The result is the pair (live set, buffer) after the call.
add_script(live, buffer, lock, g) ==
    IF lock
        THEN [scripts |-> live, scripts_to_add |-> buffer \cup {g}]
        ELSE [scripts |-> live \cup {g}, scripts_to_add |-> buffer]

\* A routine's resumption calling add_script for each routine of G, one after the other.
RECURSIVE AddAll(_, _, _, _)
AddAll(live, buffer, lock, G) ==
    IF G = {} THEN [scripts |-> live, scripts_to_add |-> buffer]
    ELSE LET g == CHOOSE x \in G : TRUE
             one == add_script(live, buffer, lock, g)
         IN AddAll(one.scripts, one.scripts_to_add, lock, G \ {g})

Unborn == {r \in Routines : gen[r] = "unborn"}

\* The k generator objects created next (identities are handed out in order).
NewRoutines(k) == {r \in Unborn : Cardinality({u \in Unborn : u < r}) < k}

\* A loop that stops at the first routine that completes.
ScriptsLeftUntilRemoval == IF to_remove # {} THEN {} ELSE scripts \ visited

\* What "for script in self.scripts" has still to yield.
ScriptsLeft == scripts \ visited

\* The generators of script() the constructors register: Scriptable.__init__
\* calls add_script(self.script()), and State.__init__ (like Object.__init__)
\* calls it again after super().__init__().
ScriptRoutines == {1, 2}

\* State.__init__ runs Scriptable.__init__ and then registers script() again:
\* a scene starts with two routines in its live set, the lock released.
SchedInit ==
    /\ scripts = {1, 2}
    /\ scripts_to_add = {}
    /\ script_add_lock = FALSE
    /\ to_remove = {}
    /\ visited = {}
    /\ gen = [r \in Routines |-> IF r \in {1, 2} THEN "suspended" ELSE "unborn"]
    /\ pc = "idle"
    /\ timer = 0
    /\ frameWork = {}
    /\ raised = 0
    /\ passNo = 0
    /\ liveAtStart = {}
    /\ resumedInPass = [r \in Routines |-> 0]
    /\ regPass = [r \in Routines |-> IF r \in {1, 2} THEN -1 ELSE 0]
    /\ firstPass = [r \in Routines |-> 0]
    /\ stopPass = [r \in Routines |-> 0]
    /\ merges = [r \in Routines |-> 0]
    /\ active = TRUE
    /\ lastCall = "on_resume"
    /\ timerAt = 0
    /\ received = {"on_resume"}

\* The scene receives a call of the kind: the history of it.
Receives(kind) ==
    /\ lastCall' = kind
    /\ timerAt' = timer
    /\ received' = received \cup {kind}

\* add_script called between two frames (an event handler, another object's code).
AddScriptOutside ==
    /\ pc = "idle"
    /\ Unborn # {}
    /\ LET g == CHOOSE r \in NewRoutines(1) : TRUE
           res == add_script(scripts, scripts_to_add, script_add_lock, g)
       IN /\ scripts' = res.scripts
          /\ scripts_to_add' = res.scripts_to_add
          /\ gen' = [gen EXCEPT ![g] = "suspended"]
          /\ regPass' = [regPass EXCEPT ![g] = IF script_add_lock THEN passNo ELSE -1]
    /\ UNCHANGED notSched
    /\ UNCHANGED callVars
    /\ UNCHANGED <<script_add_lock, to_remove, visited, pc, timer, frameWork, raised,
                    passNo, liveAtStart, resumedInPass, firstPass, stopPass, merges >>

\* App.run: handle_events, paused_logic, then App.logic -> State.logic ->
\* Scriptable.logic up to the head of its for loop.
BeginLogic ==
    /\ pc = "idle"
    /\ active
    /\ passNo < MaxPasses
    /\ Receives("logic")
    /\ to_remove' = {}
    /\ script_add_lock' = TRUE
    /\ visited' = {}
    /\ pc' = "scripts"
    /\ frameWork' = {"handle_events", "paused_logic"}
    /\ passNo' = passNo + 1
    /\ liveAtStart' = scripts
    /\ resumedInPass' = [r \in Routines |-> 0]
    /\ UNCHANGED notSched
    /\ UNCHANGED active
    /\ UNCHANGED <<scripts, scripts_to_add, gen, timer, raised, regPass, firstPass,
                    stopPass, merges >>

\* The bookkeeping common to every next(script) of the loop.
Stepped(r) ==
    /\ visited' = visited \cup {r}
    /\ resumedInPass' = [resumedInPass EXCEPT ![r] = @ + 1]
    /\ firstPass' = [firstPass EXCEPT ![r] = IF @ = 0 THEN passNo ELSE @]

\* The add_script calls a resumption of r makes before it yields, returns or
\* raises; the generator r is left in state after.
Registers(r, k, after) ==
    LET G == NewRoutines(k)
        res == AddAll(scripts, scripts_to_add, script_add_lock, G)
    IN /\ scripts' = res.scripts
       /\ scripts_to_add' = res.scripts_to_add
       /\ gen' = [x \in Routines |->
                    IF x \in G THEN "suspended" ELSE IF x = r THEN after ELSE gen[x]]
       /\ regPass' = [x \in Routines |->
                        IF x \in G THEN (IF script_add_lock THEN passNo ELSE -1)
                        ELSE regPass[x]]

\* An except clause that catches every exception.
CaughtAnyException(exc) == TRUE

\* The except clause of logic(): "except StopIteration".
Caught(exc) == exc = "StopIteration"

\* What logic() does with an exception of next(script): a caught one marks the
\* routine for removal and the loop goes on, any other leaves logic(),
\* State.logic() and App.run() at once.
Raises(r, exc) ==
    IF Caught(exc)
        THEN /\ to_remove' = to_remove \cup {r}
             /\ UNCHANGED << pc, raised >>
        ELSE /\ pc' = "crashed"
             /\ raised' = r
             /\ UNCHANGED to_remove

\* next(script) runs the routine to its next yield.
ResumeYield(r, k) ==
    /\ pc = "scripts"
    /\ r \in ScriptsLeft
    /\ gen[r] = "suspended"
    /\ Stepped(r)
    /\ Registers(r, k, "suspended")
    /\ UNCHANGED notSched
    /\ UNCHANGED callVars
    /\ UNCHANGED <<script_add_lock, to_remove, pc, timer, frameWork, raised, passNo,
                    liveAtStart, stopPass, merges >>

\* next(script) runs the routine to its end: StopIteration.
ResumeStop(r, k) ==
    /\ pc = "scripts"
    /\ r \in ScriptsLeft
    /\ gen[r] = "suspended"
    /\ Stepped(r)
    /\ Registers(r, k, "finished")
    /\ Raises(r, "StopIteration")
    /\ stopPass' = [stopPass EXCEPT ![r] = passNo]
    /\ UNCHANGED notSched
    /\ UNCHANGED callVars
    /\ UNCHANGED <<script_add_lock, timer, frameWork, passNo, liveAtStart, merges >>

\* next(script) on a generator that has already returned or raised: StopIteration.
ResumeExhausted(r) ==
    /\ pc = "scripts"
    /\ r \in ScriptsLeft
    /\ gen[r] \in {"finished", "faulted"}
    /\ Stepped(r)
    /\ Raises(r, "StopIteration")
    /\ UNCHANGED notSched
    /\ UNCHANGED callVars
    /\ UNCHANGED <<scripts, scripts_to_add, script_add_lock, gen, timer, frameWork,
                    passNo, liveAtStart, regPass, stopPass, merges >>

\* next(script) raises a fault, an exception that is no StopIteration.
ResumeFault(r, k) ==
    /\ pc = "scripts"
    /\ r \in ScriptsLeft
    /\ gen[r] = "suspended"
    /\ Stepped(r)
    /\ Registers(r, k, "faulted")
    /\ Raises(r, "Fault")
    /\ UNCHANGED notSched
    /\ UNCHANGED callVars
    /\ UNCHANGED <<script_add_lock, timer, frameWork, passNo, liveAtStart, stopPass,
                    merges >>

\* The live set after the loop of logic(): difference_update(to_remove), then
\* update(scripts_to_add).
LiveAfterPass == (scripts \ to_remove) \cup scripts_to_add

\* The buffer after logic(): the code leaves it as it is.
BufferAfterPass == scripts_to_add

\* Scriptable.logic after its loop; its locals (to_remove, the loop's iterator)
\* end with the call.
EndPass ==
    /\ pc = "scripts"
    /\ ScriptsLeft = {}
    /\ scripts' = LiveAfterPass
    /\ scripts_to_add' = BufferAfterPass
    /\ script_add_lock' = FALSE
    /\ to_remove' = {}
    /\ visited' = {}
    /\ merges' = [r \in Routines |->
                    IF r \in scripts_to_add /\ r \notin (scripts \ to_remove)
                        THEN merges[r] + 1 ELSE merges[r]]
    /\ pc' = "logic"
    /\ UNCHANGED notSched
    /\ UNCHANGED callVars
    /\ UNCHANGED << gen, timer, frameWork, raised, passNo, liveAtStart, resumedInPass,
                    regPass, firstPass, stopPass >>

\* The steps of State.logic after super().logic().
RestOfLogic == {"timer", "drain_add_later", "entity_logic", "particles", "cleanup"}

\* State.logic after the scheduler pass: the timer, the queued entities, the
\* entities' logic, the particle engine, the cleanup of dead entities.
StateLogicRest ==
    /\ pc = "logic"
    /\ timer' = timer + 1
    /\ frameWork' = frameWork \cup RestOfLogic
    /\ pc' = "draw"
    /\ liveAtStart' = {}
    /\ resumedInPass' = [r \in Routines |-> 0]
    /\ UNCHANGED notSched
    /\ UNCHANGED callVars
    /\ UNCHANGED << scripts, scripts_to_add, script_add_lock, to_remove, visited, gen,
                    raised, passNo, regPass, firstPass, stopPass, merges >>

\* App.run after App.logic: App.draw, then the end of the frame.
AppDraw ==
    /\ pc = "draw"
    /\ frameWork' = frameWork \cup {"draw"}
    /\ pc' = "idle"
    /\ UNCHANGED notSched
    /\ UNCHANGED callVars
    /\ UNCHANGED <<scripts, scripts_to_add, script_add_lock, to_remove, visited, gen,
                    timer, raised, passNo, liveAtStart, resumedInPass, regPass, firstPass,
                    stopPass, merges >>

\* What the hooks and paused_logic leave alone: all of the scene but the history.
hookLeaves == << scripts, scripts_to_add, script_add_lock, to_remove, visited, gen, pc,
                frameWork, raised, passNo, liveAtStart, resumedInPass, regPass,
                firstPass, stopPass, merges >>

\* An on_resume that starts the frame counter again.
OnResumeResetsTimer ==
    /\ pc = "idle"
    /\ ~active
    /\ active' = TRUE
    /\ Receives("on_resume")
    /\ timer' = 0
    /\ UNCHANGED << hookLeaves, notSched >>

\* The setter calls State.on_resume: the scene becomes the top again.
OnResume ==
    /\ pc = "idle"
    /\ ~active
    /\ active' = TRUE
    /\ Receives("on_resume")
    /\ UNCHANGED << timer, hookLeaves, notSched >>

\* The setter calls State.on_exit after a frame: another scene is pushed above.
OnExit ==
    /\ pc = "idle"
    /\ active
    /\ active' = FALSE
    /\ Receives("on_exit")
    /\ UNCHANGED << timer, hookLeaves, notSched >>

\* A frame of App.run while the scene is below the top: State.paused_logic.
PausedLogic ==
    /\ pc = "idle"
    /\ ~active
    /\ Receives("paused_logic")
    /\ UNCHANGED << active, timer, hookLeaves, notSched >>

SchedNext ==
    \/ OnResume
    \/ OnExit
    \/ PausedLogic
    \/ AddScriptOutside
    \/ BeginLogic
    \/ \E r \in Routines, k \in 0 .. MaxAdds : ResumeYield(r, k)
    \/ \E r \in Routines, k \in 0 .. MaxAdds : ResumeStop(r, k)
    \/ \E r \in Routines : ResumeExhausted(r)
    \/ \E r \in Routines, k \in 0 .. MaxAdds : ResumeFault(r, k)
    \/ EndPass
    \/ StateLogicRest
    \/ AppDraw

(***************************************************************************)
(* StateMachine                                                            *)
(***************************************************************************)

Front(s) == SubSeq(s, 1, Len(s) - 1)
Last(s) == s[Len(s)]
Range(s) == {s[i] : i \in 1 .. Len(s)}

\* A transition descriptor, the tuple (StateOperations, State | None).
Descr(op, new) == [op |-> op, new |-> new]

\* One hook call: the method and the scene it is invoked on.
Hook(h, s) == << h, s >>

\* A pop that forgets to tell the popped scene on_exit.
SetPOP_NoExit(stk) ==
    LET popped == IF stk # << >> THEN Front(stk) ELSE stk
    IN [stack |-> popped,
        hooks |-> IF popped # << >> THEN << Hook("on_resume", Last(popped)) >> ELSE << >>]

\* The state setter, op == POP: the top is popped and told on_exit; the scene
\* that is now the top, if there is one, is told on_resume.
SetPOP(stk) ==
    LET popped == IF stk # << >> THEN Front(stk) ELSE stk
        h1 == IF stk # << >> THEN << Hook("on_exit", Last(stk)) >> ELSE << >>
        h2 == IF popped # << >> THEN << Hook("on_resume", Last(popped)) >> ELSE << >>
    IN [stack |-> popped, hooks |-> h1 \o h2]

\* The state setter, op == PUSH: the top stays and is told on_exit, new is
\* appended and told on_resume.
SetPUSH(stk, new) ==
    LET h1 == IF stk # << >> THEN << Hook("on_exit", Last(stk)) >> ELSE << >>
    IN [stack |-> Append(stk, new), hooks |-> h1 \o << Hook("on_resume", new) >>]

\* A replace written as the pop and the push its docstring compares it to.
SetREPLACE_PopThenPush(stk, new) ==
    LET p == SetPOP(stk)
        q == SetPUSH(p.stack, new)
    IN [stack |-> q.stack, hooks |-> p.hooks \o q.hooks]

\* The state setter, op == REPLACE: the top is popped and told on_exit, new is
\* appended and told on_resume.
SetREPLACE(stk, new) ==
    LET popped == IF stk # << >> THEN Front(stk) ELSE stk
        h1 == IF stk # << >> THEN << Hook("on_exit", Last(stk)) >> ELSE << >>
    IN [stack |-> Append(popped, new), hooks |-> h1 \o << Hook("on_resume", new) >>]

\* A setter without its assert statements and its final else.
setter_unchecked(op, new) == "none"

\* The arguments the setter refuses: "assert new is None" of POP, "assert new
\* is not None" of REPLACE and PUSH, each the first statement of its branch,
\* and the ValueError of the final else.
setter_error(op, new) ==
    CASE op = "NOP" -> "none"
      [] op = "POP" -> IF new = None THEN "none" ELSE "AssertionError"
      [] op \in {"REPLACE", "PUSH"} -> IF new # None THEN "none" ELSE "AssertionError"
      [] OTHER -> "ValueError"

\* StateMachine.state (setter) applied to a descriptor: the stack and the hook
\* calls it leaves, and the exception it raises.
state_setter(stk, op, new) ==
    LET err == setter_error(op, new)
        res == IF err # "none" THEN [stack |-> stk, hooks |-> << >>]
               ELSE CASE op = "POP" -> SetPOP(stk)
                      [] op = "REPLACE" -> SetREPLACE(stk, new)
                      [] op = "PUSH" -> SetPUSH(stk, new)
                      [] OTHER -> [stack |-> stk, hooks |-> << >>]
    IN [stack |-> res.stack, hooks |-> res.hooks, error |-> err]

\* An on_resume that leaves the pending transition as it is.
on_resume_keep(sc, s) ==
    [next_state |-> sc.next_state,
     paused |-> [sc.paused EXCEPT ![s] = FALSE],
     lastHook |-> [sc.lastHook EXCEPT ![s] = "on_resume"]]

\* State.on_resume: the pending transition is reset, the debug overlay unpaused.
on_resume(sc, s) ==
    [next_state |-> [sc.next_state EXCEPT ![s] = Descr("NOP", None)],
     paused |-> [sc.paused EXCEPT ![s] = FALSE],
     lastHook |-> [sc.lastHook EXCEPT ![s] = "on_resume"]]

\* State.on_exit: the debug overlay is paused.
on_exit(sc, s) ==
    [next_state |-> sc.next_state,
     paused |-> [sc.paused EXCEPT ![s] = TRUE],
     lastHook |-> [sc.lastHook EXCEPT ![s] = "on_exit"]]

\* The scenes after the hook calls hs, made in order.
RECURSIVE RunHooks(_, _)
RunHooks(sc, hs) ==
    IF hs = << >> THEN sc
    ELSE RunHooks(IF Head(hs)[1] = "on_resume" THEN on_resume(sc, Head(hs)[2])
                                               ELSE on_exit(sc, Head(hs)[2]),
                  Tail(hs))

\* StateMachine.__init__ has pushed the initial scene, scene 1; the other
\* scene instances are constructed (State.__init__) and not yet entered.
StackInit ==
    LET built == [next_state |-> [s \in Scenes |-> Descr("NOP", s)],
                  paused |-> [s \in Scenes |-> FALSE],
                  lastHook |-> [s \in Scenes |-> "none"]]
        first == state_setter(<< >>, "PUSH", 1)
        sc == RunHooks(built, first.hooks)
    IN /\ stack = first.stack
       /\ next_state = sc.next_state
       /\ paused = sc.paused
       /\ lastHook = sc.lastHook
       /\ hooks = first.hooks
       /\ lastOp = Descr("PUSH", 1)
       /\ prevOp = Descr("NOP", None)
       /\ prevStack = << >>
       /\ prev2Stack = << >>
       /\ reused = FALSE
       /\ error = first.error

\* State.pop_state, called by the active scene during its frame.
pop_state ==
    /\ stack # << >>
    /\ error = "none"
    /\ next_state' = [next_state EXCEPT ![Last(stack)] = Descr("POP", None)]
    /\ UNCHANGED notStack
    /\ UNCHANGED <<stack, paused, hooks, lastOp, prevOp, prevStack, prev2Stack,
                    lastHook, reused, error >>

\* State.push_state(new), called by the active scene during its frame.
push_state(new) ==
    /\ stack # << >>
    /\ error = "none"
    /\ Len(stack) < MaxDepth
    /\ next_state' = [next_state EXCEPT ![Last(stack)] = Descr("PUSH", new)]
    /\ UNCHANGED notStack
    /\ UNCHANGED <<stack, paused, hooks, lastOp, prevOp, prevStack, prev2Stack,
                    lastHook, reused, error >>

\* State.replace_state(new), called by the active scene during its frame.
replace_state(new) ==
    /\ stack # << >>
    /\ error = "none"
    /\ next_state' = [next_state EXCEPT ![Last(stack)] = Descr("REPLACE", new)]
    /\ UNCHANGED notStack
    /\ UNCHANGED <<stack, paused, hooks, lastOp, prevOp, prevStack, prev2Stack,
                    lastHook, reused, error >>

\* The descriptors no request method builds: a pop with a scene, an unknown tag.
OtherDescrs == {Descr("POP", 1), Descr("UNKNOWN", None)}

\* Code of the application assigning State.next_state itself, as the callbacks
\* of push_state_callback and replace_state_callback do.
assign_next_state(d) ==
    /\ stack # << >>
    /\ error = "none"
    /\ next_state' = [next_state EXCEPT ![Last(stack)] = d]
    /\ UNCHANGED notStack
    /\ UNCHANGED <<stack, paused, hooks, lastOp, prevOp, prevStack, prev2Stack,
                    lastHook, reused, error >>

\* self.state = self.state.next_state: the setter applied to the pending
\* transition of the active scene, with the hooks it calls and the exception
\* it raises.
ApplyPending ==
    LET req == next_state[Last(stack)]
        res == state_setter(stack, req.op, req.new)
        sc == RunHooks([next_state |-> next_state, paused |-> paused,
                        lastHook |-> lastHook], res.hooks)
    IN /\ stack' = res.stack
       /\ next_state' = sc.next_state
       /\ paused' = sc.paused
       /\ lastHook' = sc.lastHook
       /\ hooks' = res.hooks
       /\ error' = res.error

\* The history of the applications of the setter.
RecordPending ==
    LET req == next_state[Last(stack)]
    IN /\ lastOp' = req
       /\ reused' = (reused \/ (/\ req.op \in {"PUSH", "REPLACE"}
                                 /\ req.new \in Scenes
                                 /\ \/ req.new \in Range(stack)
                                    \/ lastHook[req.new] # "none"))
       /\ prevOp' = lastOp
       /\ prevStack' = stack
       /\ prev2Stack' = prevStack

\* The end of a frame of App.run: the machine consumes the pending transition of
\* the active scene.
go_to_next_state ==
    /\ stack # << >>
    /\ error = "none"
    /\ ApplyPending
    /\ RecordPending
    /\ UNCHANGED notStack

StackNext ==
    \/ pop_state
    \/ \E new \in Scenes \cup {None} : push_state(new)
    \/ \E new \in Scenes \cup {None} : replace_state(new)
    \/ \E d \in OtherDescrs : assign_next_state(d)
    \/ go_to_next_state

(***************************************************************************)
(* App.run, the host loop                                                  *)
(***************************************************************************)

\* The transition scene the application builds: scene 3 is a
\* FadeTransition(previous, next_) between scene 1 and scene 2.
TransitionScenes == {3}
previous == [s \in TransitionScenes |-> 1]
next_ == [s \in TransitionScenes |-> 2]

\* One call of a scene method: the method, the scene, and the scene whose code
\* made the call (None: App.run itself).
Call(m, s, by) == << m, s, by >>

\* StateMachine.state (getter): the top of the stack, or None.
state == IF stack # << >> THEN Last(stack) ELSE None

\* StateMachine.running.
running == Len(stack) > 0

\* A loop that never tests the stack.
LoopForever == TRUE

\* The test of the loop of App.run: "while self.state is not None".
LoopCondition == state # None

\* A slice that takes the whole stack.
WholeStack(stk) == stk

\* The scenes App.run gives paused_logic: self.stack[:-1].
PausedScenes(stk) == Front(stk)

\* State.draw, FadeTransition.draw: a scene draws itself; a transition scene
\* then draws its previous scene and, for next_surface, its next scene.
DrawCalls(s, by) ==
    << Call("draw", s, by) >> \o
    (IF s \in TransitionScenes
        THEN << Call("draw", previous[s], s), Call("draw", next_[s], s) >>
        ELSE << >>)

\* What the active scene may ask for during handle_events or logic.
Requests ==
    {Descr("POP", None)}
    \cup {Descr("REPLACE", new) : new \in Scenes \cup {None}}
    \cup {Descr("PUSH", new) : new \in (IF Len(stack) < MaxDepth THEN Scenes \cup {None} ELSE {})}
    \cup OtherDescrs

\* No transition asked for.
NoRequest == Descr("NOP", None)

LoopInit ==
    /\ lpc = "test"
    /\ calls = << >>
    /\ requested = NoRequest
    /\ applied = NoRequest
    /\ earlier = NoRequest.op

\* The head of the loop of App.run.
LoopTest ==
    /\ lpc = "test"
    /\ lpc' = IF LoopCondition THEN "events" ELSE "ended"
    /\ earlier' = NoRequest.op
    /\ UNCHANGED << calls, requested, applied, notLoop, stackVars >>

\* A scene that keeps the first transition it asked for in the frame.
MayRequestFirstWins(before) ==
    \/ /\ UNCHANGED next_state
       /\ requested' = before
       /\ earlier' = NoRequest.op
    \/ /\ state # None
       /\ \E req \in Requests :
             /\ next_state' = IF before = NoRequest
                                 THEN [next_state EXCEPT ![state] = req]
                                 ELSE next_state
             /\ requested' = req
             /\ earlier' = before.op

\* The active scene's code sets its pending transition, or leaves it.
MayRequest(before) ==
    \/ /\ UNCHANGED next_state
       /\ requested' = before
       /\ earlier' = NoRequest.op
    \/ /\ state # None
       /\ \E req \in Requests :
             /\ next_state' = [next_state EXCEPT ![state] = req]
             /\ requested' = req
             /\ earlier' = before.op

\* App.handle_events: the active scene's handle_events.
AppHandleEvents ==
    /\ lpc = "events"
    /\ calls' = IF state # None
                    THEN Append(calls, Call("handle_events", state, None)) ELSE calls
    /\ MayRequest(NoRequest)
    /\ lpc' = "paused"
    /\ UNCHANGED << applied, notLoop, stack, paused, hooks, lastOp, prevOp, prevStack, prev2Stack,
                    lastHook, reused, error >>

\* "for state in self.stack[:-1]: state.paused_logic()".
AppPausedLogic ==
    /\ lpc = "paused"
    /\ LET ps == PausedScenes(stack)
       IN calls' = calls \o [i \in 1 .. Len(ps) |-> Call("paused_logic", ps[i], None)]
    /\ lpc' = "logic"
    /\ UNCHANGED << requested, applied, earlier, notLoop, stackVars >>

\* App.logic: the active scene's logic.
AppLogic ==
    /\ lpc = "logic"
    /\ calls' = IF state # None THEN Append(calls, Call("logic", state, None)) ELSE calls
    /\ MayRequest(requested)
    /\ lpc' = "draw"
    /\ UNCHANGED << applied, notLoop, stack, paused, hooks, lastOp, prevOp, prevStack, prev2Stack,
                    lastHook, reused, error >>

\* App.draw, window.flip and clock.tick(self.state.FPS), which fails on None.
AppDrawTick ==
    /\ lpc = "draw"
    /\ calls' = IF state # None THEN calls \o DrawCalls(state, None) ELSE calls
    /\ lpc' = IF state # None THEN "next" ELSE "crashed"
    /\ UNCHANGED << requested, applied, earlier, notLoop, stackVars >>

\* The last statement of the loop body: self.go_to_next_state(); an exception
\* of the setter leaves App.run.
AppNextState ==
    /\ lpc = "next"
    /\ ApplyPending
    /\ applied' = next_state[Last(stack)]
    /\ calls' = << >>
    /\ lpc' = IF error' = "none" THEN "test" ELSE "crashed"
    /\ UNCHANGED << requested, earlier, notLoop, lastOp, prevOp, prevStack, prev2Stack, reused >>

LoopNext ==
    \/ LoopTest
    \/ AppHandleEvents
    \/ AppPausedLogic
    \/ AppLogic
    \/ AppDrawTick
    \/ AppNextState

(***************************************************************************)
(* State: one scene, its entities, its frame                               *)
(***************************************************************************)

\* State.add: the queue while the lock is held, the live collection otherwise.
add(objs, later, lock, obj) ==
    IF lock
        THEN [objects |-> objs, add_later |-> Append(later, obj)]
        ELSE [objects |-> objs \cup {obj}, add_later |-> later]

\* The entity instance constructed next (identities are handed out in order).
NewEntity == CHOOSE e \in Entities \ made : \A f \in Entities \ made : e <= f

\* What code running in the frame may do with State.add: nothing, or construct
\* an entity of depth key z and add it.
AddChoices == {[add |-> FALSE, Z |-> 0]} \cup {[add |-> TRUE, Z |-> z] : z \in ZKeys}

\* Code of the frame calling self.add(NewEntity) or not; kill is the entity
\* whose alive flag the same code clears (None: none); q is the record of the
\* queued entities the code starts from.
Acts(c, kill, q) ==
    /\ c.add => made # Entities
    /\ kill # None => (kill \in made /\ alive[kill])
    /\ LET res == IF c.add THEN add(objects, add_later, add_object_lock, NewEntity)
                  ELSE [objects |-> objects, add_later |-> add_later]
       IN /\ objects' = res.objects
          /\ add_later' = res.add_later
    /\ made' = IF c.add THEN made \cup {NewEntity} ELSE made
    /\ Z' = IF c.add THEN [Z EXCEPT ![NewEntity] = c.Z] ELSE Z
    /\ queued' = IF c.add /\ add_object_lock THEN [q EXCEPT ![NewEntity] = "now"] ELSE q
    /\ alive' = IF kill # None THEN [alive EXCEPT ![kill] = FALSE] ELSE alive

\* State.__init__: the Debug entity is added while the lock is released.
SceneInit ==
    /\ objects = {debug}
    /\ add_later = << >>
    /\ add_object_lock = FALSE
    /\ alive = [e \in Entities |-> TRUE]
    /\ Z = [e \in Entities |-> IF e = debug THEN DebugZ ELSE 0]
    /\ made = {debug}
    /\ spc = "idle"
    /\ dead_found = {}
    /\ cleaned = {}
    /\ steps = << >>
    /\ logicked = {}
    /\ drawn = << >>
    /\ queued = [e \in Entities |-> "no"]
    /\ selfKilled = {}
    /\ deaths = [e \in Entities |-> 0]

\* A frame of App.run starts: State.handle_events triggers the input
\* callbacks, which may add an entity.
HandleEvents(c) ==
    /\ spc = "idle"
    /\ Acts(c, None, [e \in Entities |-> IF queued[e] = "now" THEN "before" ELSE queued[e]])
    /\ steps' = << >>
    /\ logicked' = {}
    /\ drawn' = << >>
    /\ selfKilled' = {}
    /\ spc' = "scripts"
    /\ UNCHANGED << add_object_lock, dead_found, cleaned, deaths >>
    /\ UNCHANGED notScene

\* State.logic, super().logic(): the routines of the scene are resumed; they
\* may add an entity.
SceneScripts(c) ==
    /\ spc = "scripts"
    /\ Acts(c, None, queued)
    /\ steps' = Append(steps, "scheduler")
    /\ spc' = "drain"
    /\ UNCHANGED << add_object_lock, dead_found, cleaned, logicked, drawn,
                    selfKilled, deaths >>
    /\ UNCHANGED notScene

\* The queue after it was handed, unlocked, to add(): every entity is live.
RECURSIVE AddQueued(_, _)
AddQueued(objs, later) ==
    IF later = << >> THEN objs
    ELSE AddQueued(add(objs, << >>, FALSE, Head(later)).objects, Tail(later))

\* State.logic: the lock is released, the queued entities are added, the
\* queue is emptied, the lock is taken.
DrainAddLater ==
    /\ spc = "drain"
    /\ objects' = AddQueued(objects, add_later)
    /\ add_later' = << >>
    /\ add_object_lock' = TRUE
    /\ steps' = Append(steps, "drain")
    /\ spc' = "entities"
    /\ UNCHANGED << alive, Z, made, dead_found, cleaned, logicked, drawn,
                    queued, selfKilled, deaths >>
    /\ UNCHANGED notScene

\* "for object in self.objects: object.logic()": the logic of one entity,
\* which may add an entity and clear an alive flag, its own included.
EntityLogic(e, c, kill) ==
    /\ spc = "entities"
    /\ e \in objects \ logicked
    /\ (e = debug) => (~c.add /\ kill = None)
    /\ Acts(c, kill, queued)
    /\ logicked' = logicked \cup {e}
    /\ selfKilled' = IF kill = e THEN selfKilled \cup {e} ELSE selfKilled
    /\ UNCHANGED << add_object_lock, spc, dead_found, cleaned, steps, drawn,
                    deaths >>
    /\ UNCHANGED notScene

\* The loop over the entities has ended; self.particles.logic().
ParticlesLogic ==
    /\ spc = "entities"
    /\ objects \ logicked = {}
    /\ steps' = steps \o << "entity_logic", "particles" >>
    /\ dead_found' = {}
    /\ cleaned' = {}
    /\ spc' = "cleanup"
    /\ UNCHANGED << objects, add_later, add_object_lock, alive, Z, made,
                    logicked, drawn, queued, selfKilled, deaths >>
    /\ UNCHANGED notScene

\* A cleanup that takes every entity for dead.
DeadOrAlive(e) == TRUE

\* The test of the cleanup loop: "if not object.alive".
Dead(e) == ~alive[e]

\* The cleanup loop of State.logic at one entity: a dead one is marked and its
\* on_death() called, which may add an entity and clear another's alive flag.
Cleanup(e, c, kill) ==
    /\ spc = "cleanup"
    /\ e \in objects \ cleaned
    /\ cleaned' = cleaned \cup {e}
    /\ IF Dead(e)
          THEN /\ dead_found' = dead_found \cup {e}
               /\ deaths' = [deaths EXCEPT ![e] = @ + 1]
               /\ (e = debug) => (~c.add /\ kill = None)
               /\ Acts(c, kill, queued)
          ELSE /\ ~c.add
               /\ kill = None
               /\ UNCHANGED << dead_found, deaths, objects, add_later, made, Z, queued,
                               alive >>
    /\ UNCHANGED << add_object_lock, spc, steps, logicked, drawn, selfKilled >>
    /\ UNCHANGED notScene

\* A cleanup that forgets to remove what it found.
ObjectsKept(objs, found) == objs

\* self.objects.difference_update(to_remove).
ObjectsAfterCleanup(objs, found) == objs \ found

\* The cleanup loop has ended: the dead entities leave the live collection and
\* State.logic returns.
CleanupEnd ==
    /\ spc = "cleanup"
    /\ objects \ cleaned = {}
    /\ objects' = ObjectsAfterCleanup(objects, dead_found)
    /\ dead_found' = {}
    /\ cleaned' = {}
    /\ steps' = Append(steps, "cleanup")
    /\ spc' = "draw"
    /\ UNCHANGED << add_later, add_object_lock, alive, Z, made, logicked, drawn,
                    queued, selfKilled, deaths >>
    /\ UNCHANGED notScene

\* The orders in which "for obj in self.objects" may yield the set S.
Orders(S) ==
    {f \in [1 .. Cardinality(S) -> S] : \A i, j \in 1 .. Cardinality(S) : f[i] = f[j] => i = j}

\* A list of the depth keys that is not sorted ascending.
RECURSIVE Descending(_)
Descending(S) ==
    IF S = {} THEN << >>
    ELSE LET m == CHOOSE x \in S : \A y \in S : x >= y
         IN << m >> \o Descending(S \ {m})

\* sorted(set(o.Z for o in self.objects)), given the set.
RECURSIVE Sorted(_)
Sorted(S) ==
    IF S = {} THEN << >>
    ELSE LET m == CHOOSE x \in S : \A y \in S : x <= y
         IN << m >> \o Sorted(S \ {m})

\* A test that forgets the flag.
ParticlesAfterEveryLayer(z, did) == z >= 0

\* A test that waits for a layer above zero.
ParticlesAfterPositive(z, did) == z > 0 /\ ~did

\* "if z >= 0 and not did_draw_particles", evaluated after the layer z was drawn.
ParticlesAfterLayer(z, did) == z >= 0 /\ ~did

\* The loop of State.draw over the depth keys zs: the entities of a key in the
\* order ord of the collection, then, the first time the test allows it, the
\* particles; after the loop the particles if they were not drawn.
RECURSIVE DrawLayers(_, _, _)
DrawLayers(ord, zs, did) ==
    IF zs = << >> THEN (IF ~did THEN << Particles >> ELSE << >>)
    ELSE LET z == Head(zs)
             now == ParticlesAfterLayer(z, did)
         IN SelectSeq(ord, LAMBDA o : Z[o] = z)
            \o (IF now THEN << Particles >> ELSE << >>)
            \o DrawLayers(ord, Tail(zs), did \/ now)

\* State.draw: the draw order of the frame.
StateDraw(ord) ==
    /\ spc = "draw"
    /\ drawn' = DrawLayers(ord, Sorted({Z[o] : o \in objects}), FALSE)
    /\ spc' = "idle"
    /\ UNCHANGED << objects, add_later, add_object_lock, alive, Z, made, dead_found,
                    cleaned, steps, logicked, queued, selfKilled, deaths >>
    /\ UNCHANGED notScene

SceneNext ==
    \/ \E c \in AddChoices : HandleEvents(c)
    \/ \E c \in AddChoices : SceneScripts(c)
    \/ DrainAddLater
    \/ \E e \in Entities, c \in AddChoices, kill \in Entities \cup {None} : EntityLogic(e, c, kill)
    \/ ParticlesLogic
    \/ \E e \in Entities, c \in AddChoices, kill \in Entities \cup {None} : Cleanup(e, c, kill)
    \/ CleanupEnd
    \/ \E ord \in Orders(objects) : StateDraw(ord)

(***************************************************************************)
(* Python floats: Particle.life_prop                                       *)
(***************************************************************************)

\* A float x of [2^-7, 2) or zero is the integer x * 2^FracBits, written as
\* three digits of base Limb, the most significant first (it is below
\* 2 * Limb).  Every float of that range and every exact sum of two of them
\* is such an integer.
Limb == 2 ^ 20

FloatZero == << 0, 0, 0 >>

FloatOne == << Limb, 0, 0 >>

\* The digits after the carries were passed on.
Carried(a) ==
    LET c0 == a[3] \div Limb
        c1 == (a[2] + c0) \div Limb
    IN << a[1] + c1, (a[2] + c0) % Limb, a[3] % Limb >>

\* The exact sum of two floats.
ExactAdd(a, b) == Carried(<< a[1] + b[1], a[2] + b[2], a[3] + b[3] >>)

\* The unit in the last place of a float of the binade of a, in units of
\* 2^-FracBits: a is in [2^-j, 2^(1-j)) and has Precision significant digits.
Ulp(a) ==
    IF a[1] = 0 THEN 1
    ELSE LET j == CHOOSE k \in 0 .. 20 : a[1] >= 2 ^ (20 - k) /\ (k = 0 \/ a[1] < 2 ^ (21 - k))
         IN 2 ^ (FracBits + 1 - Precision - j)

\* IEEE 754 binary64 rounding, to nearest and to even on a tie, of the exact
\* value a (plus something positive below its last digit when sticky).
FloatRound(a, sticky) ==
    LET u == Ulp(a)
        rem == a[3] % u
        low == a[3] - rem
        up == \/ 2 * rem > u
              \/ 2 * rem = u /\ (sticky \/ (low \div u) % 2 = 1)
    IN Carried(<< a[1], a[2], IF up THEN low + u ELSE low >>)

\* "1 / self.lifespan": the quotient of the integers 1 and L, correctly
\* rounded; the long division of 2^FracBits by L in base Limb.
FloatInverse(L) ==
    LET r3 == 1 % L
        r2 == (r3 * Limb) % L
        r1 == (r2 * Limb) % L
        r0 == (r1 * Limb) % L
    IN FloatRound(<< (1 \div L) * Limb + (r3 * Limb) \div L,
                     (r2 * Limb) \div L,
                     (r1 * Limb) \div L >>,
                  r0 # 0)

\* The float sum a + b.
FloatAdd(a, b) == FloatRound(ExactAdd(a, b), FALSE)

\* "a >= 1".
FloatGE1(a) == a[1] >= Limb

(***************************************************************************)
(* State.create_inputs                                                     *)
(***************************************************************************)

\* The bindings of the scene itself and of its Debug entity.
SceneBindings == {"quit", "mute"}
DebugBindings == {"toggle-debug", "slow-motion"}

\* What the create_inputs() of the entity classes of the application return.
EntityBindings == {{}, {"quit"}, {"toggle-debug"}, {"jump"}, {"fire"}, {"jump", "fire"}}

\* A test that never finds a conflict.
NeverConflicting(ins, names) == FALSE

\* "not set(inputs).isdisjoint(obj_inputs)".
Conflicting(ins, names) == {p[1] : p \in ins} \cap names # {}

\* inputs.update(object.create_inputs()): a dict update, the new owner wins.
InputsUpdate(ins, names, owner) ==
    {p \in ins : p[1] \notin names} \cup {<< n, owner >> : n \in names}

InputsInit ==
    /\ declared = [e \in Entities |-> IF e = debug THEN DebugBindings ELSE {}]
    /\ inputs = {}
    /\ ci_left = {}
    /\ ci_pc = "idle"

\* The scene's constructor builds an entity whose create_inputs() returns the
\* names and adds it.
ConstructEntity(names) ==
    /\ ci_pc = "idle"
    /\ made # Entities
    /\ objects' = add(objects, add_later, add_object_lock, NewEntity).objects
    /\ add_later' = add(objects, add_later, add_object_lock, NewEntity).add_later
    /\ made' = made \cup {NewEntity}
    /\ declared' = [declared EXCEPT ![NewEntity] = names]
    /\ UNCHANGED << inputs, ci_left, ci_pc >>
    /\ UNCHANGED << add_object_lock, alive, Z, spc, dead_found, cleaned, steps, logicked,
                    drawn, queued, selfKilled, deaths >>
    /\ UNCHANGED notInput

\* State.on_resume calls create_inputs: the bindings of the scene, then the
\* loop over self.objects.
CreateInputsBegin ==
    /\ ci_pc = "idle"
    /\ inputs' = {<< n, None >> : n \in SceneBindings}
    /\ ci_left' = objects
    /\ ci_pc' = "loop"
    /\ UNCHANGED << declared, sceneVars, notInput >>

\* The loop of create_inputs at one entity: ValueError on a conflict, the
\* update otherwise.
CreateInputsStep(e) ==
    /\ ci_pc = "loop"
    /\ e \in ci_left
    /\ IF Conflicting(inputs, declared[e])
          THEN /\ ci_pc' = "ValueError"
               /\ UNCHANGED << inputs, ci_left >>
          ELSE /\ inputs' = InputsUpdate(inputs, declared[e], e)
               /\ ci_left' = ci_left \ {e}
               /\ UNCHANGED ci_pc
    /\ UNCHANGED << declared, sceneVars, notInput >>

\* create_inputs returns and on_resume goes on: the scene is activated.
CreateInputsReturn ==
    /\ ci_pc = "loop"
    /\ ci_left = {}
    /\ ci_pc' = "resumed"
    /\ UNCHANGED << declared, inputs, ci_left, sceneVars, notInput >>

InputsNext ==
    \/ \E names \in EntityBindings : ConstructEntity(names)
    \/ CreateInputsBegin
    \/ \E e \in Entities : CreateInputsStep(e)
    \/ CreateInputsReturn

(***************************************************************************)
(* Particle and its Builder                                                *)
(***************************************************************************)

Pids == 1 .. MaxParticles

\* The closures the application registers with Builder.anim: "zero" sets
\* alpha to 0, "bump" adds 1 to alpha, "drag" takes the speed off the size.
Closures == {"zero", "bump", "drag"}

\* The arguments the application gives velocity(), acceleration() and sized().
Speeds == {-1, 0, 1}
Accs == {-1}
Sizes == {0, 1, 2}

\* Particle.__init__.  pos is the distance along the heading (angle_vel is 0);
\* updates, ran, chkSize and byFountain are history: the logic() calls
\* received, the closures the last logic() ran, the size its viability test
\* saw, and who added the particle.
NewParticleObject ==
    [pos |-> 0, speed |-> 3, acc |-> 0, size |-> 10, lifespan |-> 60, alpha |-> 255,
     life_prop |-> FloatZero, alive |-> TRUE, animations |-> << >>,
     updates |-> 0, ran |-> << >>, chkSize |-> 10, byFountain |-> FALSE]

\* The first statements of Particle.logic: life_prop, speed and position.
Integrate(p) ==
    [p EXCEPT !.life_prop = FloatAdd(@, FloatInverse(p.lifespan)),
              !.speed = @ + p.acc,
              !.pos = @ + p.speed + p.acc,
              !.updates = @ + 1,
              !.ran = << >>,
              !.chkSize = p.size]

\* A test that also gives up a particle that stands still.
NonViableAtRest(p) == p.speed <= 0 \/ p.size <= 0 \/ FloatGE1(p.life_prop)

\* "if self.speed < 0 or self.size <= 0 or self.life_prop >= 1".
NonViable(p) == p.speed < 0 \/ p.size <= 0 \/ FloatGE1(p.life_prop)

\* One closure called on the particle.
RunAnim(c, p) ==
    LET q == CASE c = "zero" -> [p EXCEPT !.alpha = 0]
               [] c = "bump" -> [p EXCEPT !.alpha = @ + 1]
               [] c = "drag" -> [p EXCEPT !.size = @ - p.speed]
    IN [q EXCEPT !.ran = Append(@, c)]

\* The closures called last registered first.
RECURSIVE RunAnimationsReversed(_, _)
RunAnimationsReversed(anims, p) ==
    IF anims = << >> THEN p
    ELSE RunAnimationsReversed(Front(anims), RunAnim(Last(anims), p))

\* "for anim in self.animations: anim(self)".
RECURSIVE RunAnimations(_, _)
RunAnimations(anims, p) ==
    IF anims = << >> THEN p
    ELSE RunAnimations(Tail(anims), RunAnim(Head(anims), p))

\* A logic() that runs the closures of a particle it has just marked dead.
ParticleLogicAlwaysAnimates(p) ==
    LET q == Integrate(p)
    IN IF NonViable(q) THEN RunAnimations(q.animations, [q EXCEPT !.alive = FALSE])
       ELSE RunAnimations(q.animations, q)

\* Particle.logic.
ParticleLogic(p) ==
    LET q == Integrate(p)
    IN IF NonViable(q) THEN [q EXCEPT !.alive = FALSE]
       ELSE RunAnimations(q.animations, q)

(***************************************************************************)
(* ParticleFountain and ParticleSystem                                     *)
(***************************************************************************)

\* The frequencies of the fountains of the application, in tenths: 0.4, 1.0
\* and 2.3; and the values of random.random(), a float of [0, 1), in tenths
\* rounded down: below both fractional parts, between them, above both.
Rates == {4, 10, 23}
Randoms == {0, 3, 9}

\* The lifespans of the particles the generators of the fountains build.
GeneratorLifespans == {1, 2}

\* An rrange that also takes the extra element when random() equals proba.
rrange_inclusive(nb, rnd) ==
    LET qte == nb \div 10
        proba == nb - 10 * qte
    IN IF rnd <= proba THEN qte + 1 ELSE qte

\* utils.rrange: the length of the range it returns for nb tenths when
\* random.random() gives rnd tenths.
rrange(nb, rnd) ==
    LET qte == nb \div 10
        proba == nb - 10 * qte
    IN IF rnd < proba THEN qte + 1 ELSE qte

\* The identities the next n particle objects get: the lowest ones not in the system.
RECURSIVE FreshPids(_, _)
FreshPids(used, n) ==
    IF n = 0 THEN << >>
    ELSE LET i == CHOOSE x \in Pids \ used : \A y \in Pids \ used : x <= y
         IN << i >> \o FreshPids(used \cup {i}, n - 1)

\* The engine as a record: the particles, the system, the log.
Engine(ps, sys, log) == [parts |-> ps, psys |-> sys, elog |-> log]

\* ParticleFountain.logic for the fountains fs in order, rnd the values of
\* random.random(): each adds rrange(frequency) particles of its generator.
RECURSIVE RunFountains(_, _, _, _)
RunFountains(en, fs, rnd, i) ==
    IF i > Len(fs) THEN en
    ELSE LET n == rrange(fs[i].frequency, rnd[i])
             ids == FreshPids(en.psys, n)
             made_ == [NewParticleObject EXCEPT !.lifespan = fs[i].lifespan,
                                               !.byFountain = TRUE]
         IN RunFountains(
                Engine([id \in Pids |-> IF id \in Range(ids) THEN made_ ELSE en.parts[id]],
                       en.psys \cup Range(ids),
                       en.elog \o [k \in 1 .. n |-> << "fountain", i, ids[k] >>]),
                fs, rnd, i + 1)

\* "for particle in self: particle.logic()", ord the particles of the set (a
\* logic() touches its own particle only, so one order stands for all).
RECURSIVE RunParticles(_, _)
RunParticles(en, ord) ==
    IF ord = << >> THEN en
    ELSE RunParticles(
             Engine([en.parts EXCEPT ![Head(ord)] = ParticleLogic(@)],
                    en.psys,
                    Append(en.elog, << "logic", Head(ord) >>)),
             Tail(ord))

\* A system that keeps its dead particles.
KeepDead(en) == Engine(en.parts, en.psys, Append(en.elog, << "remove", {} >>))

\* "self.difference_update(dead)", dead the particles found not alive.
RemoveDead(en) ==
    LET dead == {id \in en.psys : ~en.parts[id].alive}
    IN Engine(en.parts, en.psys \ dead, Append(en.elog, << "remove", dead >>))

\* The number of particles the fountains fs add with the random values rnd.
RECURSIVE Emission(_, _, _)
Emission(fs, rnd, i) ==
    IF i > Len(fs) THEN 0 ELSE rrange(fs[i].frequency, rnd[i]) + Emission(fs, rnd, i + 1)

PartInit ==
    /\ draft = NewParticleObject
    /\ drafting = FALSE
    /\ parts = [id \in Pids |-> NewParticleObject]
    /\ psys = {}
    /\ fountains = << >>
    /\ elog = << >>
    /\ emitted = << >>
    /\ pdrawn = {}

\* Particle().builder(); the particle the application built before is forgotten.
NewBuilder ==
    /\ ~drafting
    /\ psys = {}
    /\ drafting' = TRUE
    /\ draft' = NewParticleObject
    /\ parts' = [id \in Pids |-> NewParticleObject]
    /\ elog' = << >>
    /\ pdrawn' = {}
    /\ UNCHANGED << psys, fountains, emitted, notPart >>

\* Builder.living(lifespan).
living(lifespan) ==
    /\ drafting
    /\ draft' = [draft EXCEPT !.lifespan = lifespan]
    /\ UNCHANGED << drafting, parts, psys, fountains, elog, emitted, pdrawn, notPart >>

\* Builder.velocity(speed).
velocity(speed) ==
    /\ drafting
    /\ draft' = [draft EXCEPT !.speed = speed]
    /\ UNCHANGED << drafting, parts, psys, fountains, elog, emitted, pdrawn, notPart >>

\* Builder.acceleration(directional).
acceleration(directional) ==
    /\ drafting
    /\ draft' = [draft EXCEPT !.acc = directional]
    /\ UNCHANGED << drafting, parts, psys, fountains, elog, emitted, pdrawn, notPart >>

\* Builder.sized(size).
sized(size) ==
    /\ drafting
    /\ draft' = [draft EXCEPT !.size = size, !.chkSize = size]
    /\ UNCHANGED << drafting, parts, psys, fountains, elog, emitted, pdrawn, notPart >>

\* Builder.anim(animation).
anim(animation) ==
    /\ drafting
    /\ Len(draft.animations) < MaxAnims
    /\ draft' = [draft EXCEPT !.animations = Append(@, animation)]
    /\ UNCHANGED << drafting, parts, psys, fountains, elog, emitted, pdrawn, notPart >>

\* system.add(builder.build()): the application adds the particle it built.
SystemAdd ==
    /\ drafting
    /\ psys # Pids
    /\ LET id == FreshPids(psys, 1)[1]
       IN /\ parts' = [parts EXCEPT ![id] = draft]
          /\ psys' = psys \cup {id}
    /\ drafting' = FALSE
    /\ UNCHANGED << draft, fountains, elog, emitted, pdrawn, notPart >>

\* The application gives the system a fountain.
AddFountain(frequency, lifespan) ==
    /\ Len(fountains) < MaxFountains
    /\ fountains' = Append(fountains, [frequency |-> frequency, lifespan |-> lifespan])
    /\ UNCHANGED << draft, drafting, parts, psys, elog, emitted, pdrawn, notPart >>

\* A logic() that updates the particles before it runs the fountains.
SystemLogicParticlesFirst(en, fs, rnd) ==
    RemoveDead(RunFountains(RunParticles(en, Sorted(en.psys)), fs, rnd, 1))

\* The three steps of ParticleSystem.logic: the fountains, the particles,
\* the removal of the dead.
SystemLogic(en, fs, rnd) ==
    LET f == RunFountains(en, fs, rnd, 1)
    IN RemoveDead(RunParticles(f, Sorted(f.psys)))

\* ParticleSystem.logic, with the values rnd of random.random().
ParticleSystemLogic(rnd) ==
    /\ Emission(fountains, rnd, 1) <= Cardinality(Pids \ psys)
    /\ LET r == SystemLogic(Engine(parts, psys, << >>), fountains, rnd)
       IN /\ parts' = r.parts
          /\ psys' = r.psys
          /\ elog' = r.elog
    /\ emitted' = [i \in 1 .. Len(fountains) |->
                       Cardinality({k \in 1 .. Len(elog') :
                                       elog'[k][1] = "fountain" /\ elog'[k][2] = i})]
    /\ pdrawn' = {}
    /\ UNCHANGED << draft, drafting, fountains, notPart >>

\* ParticleSystem.draw: every particle of the system is drawn.
ParticleSystemDraw ==
    /\ pdrawn' = psys
    /\ UNCHANGED << draft, drafting, parts, psys, fountains, elog, emitted, notPart >>

\* A particle built by the application and updated by the system.
ParticleNext ==
    \/ NewBuilder
    \/ \E L \in 1 .. MaxLifespan : living(L)
    \/ \E v \in Speeds : velocity(v)
    \/ \E a \in Accs : acceleration(a)
    \/ \E z \in Sizes : sized(z)
    \/ \E c \in Closures : anim(c)
    \/ SystemAdd
    \/ ParticleSystemLogic(<< >>)
    \/ ParticleSystemDraw

\* A system fed by its fountains.
EngineNext ==
    \/ \E r \in Rates, L \in GeneratorLifespans : AddFountain(r, L)
    \/ \E rnd \in [1 .. Len(fountains) -> Randoms] : ParticleSystemLogic(rnd)
    \/ ParticleSystemDraw

(***************************************************************************)
(* utils.py: Cooldown, clamp, angle_towards                                *)
(***************************************************************************)

\* The duration the application constructs its Cooldown with.
AutoLock == 2

\* The durations the application gives lock_for.
Durations == 0 .. MaxDuration

\* The angles, in degrees, the application gives angle_towards: both sides of
\* 0/360, a pair half a turn apart, one below 0 and one above 360.
Angles == {-30, 0, 10, 20, 90, 170, 180, 190, 270, 340, 350, 370}

\* The values of max_movement.
Movements == {0, 10, 30, 200}

\* Cooldown.lock_for: "min(duration, self.locked_for + duration)".
lock_for(locked, duration) ==
    IF duration <= locked + duration THEN duration ELSE locked + duration

\* utils.clamp.
clamp(x, mini, maxi) == IF x < mini THEN mini ELSE IF x > maxi THEN maxi ELSE x

\* abs().
Abs(x) == IF x < 0 THEN -x ELSE x

\* utils.angle_towards.
angle_towards(start, goal, max_movement) ==
    LET s == start % 360
        g == goal % 360
    IN IF Abs(s - g) > 180
         THEN s + clamp(s - g, -max_movement, max_movement)
         ELSE s + clamp(g - s, -max_movement, max_movement)

\* The distance of two angles on the circle of 360 degrees.
CircularDistance(a, b) ==
    LET x == (a - b) % 360
    IN IF x <= 360 - x THEN x ELSE 360 - x

\* Cooldown(AutoLock).
UtilInit ==
    /\ locked_for = 0
    /\ lockedBefore = 0
    /\ lockDur = 0
    /\ cdCall = "init"
    /\ aStart = 0
    /\ aGoal = 0
    /\ aMax = 0
    /\ aResult = 0

\* cooldown.lock_for(duration).
CooldownLockFor(duration) ==
    /\ locked_for' = lock_for(locked_for, duration)
    /\ lockedBefore' = locked_for
    /\ lockDur' = duration
    /\ cdCall' = "lock_for"
    /\ UNCHANGED << aStart, aGoal, aMax, aResult, notUtil >>

\* cooldown.tick(fire); the frames after MaxDuration unlocked ones are alike.
CooldownTick(fire) ==
    /\ locked_for > -MaxDuration
    /\ locked_for' = IF fire /\ locked_for - 1 <= 0 THEN AutoLock ELSE locked_for - 1
    /\ lockedBefore' = locked_for
    /\ cdCall' = "tick"
    /\ UNCHANGED << lockDur, aStart, aGoal, aMax, aResult, notUtil >>

\* cooldown.fire().
CooldownFire ==
    /\ locked_for' = IF locked_for <= 0 THEN AutoLock ELSE locked_for
    /\ lockedBefore' = locked_for
    /\ cdCall' = "fire"
    /\ UNCHANGED << lockDur, aStart, aGoal, aMax, aResult, notUtil >>

\* angle_towards(start, goal, max_movement) is called.
AngleTowards(start, goal, max_movement) ==
    /\ aStart' = start
    /\ aGoal' = goal
    /\ aMax' = max_movement
    /\ aResult' = angle_towards(start, goal, max_movement)
    /\ UNCHANGED << locked_for, lockedBefore, lockDur, cdCall, notUtil >>

\* The application using a cooldown.
CooldownNext ==
    \/ \E d \in Durations : CooldownLockFor(d)
    \/ \E fire \in BOOLEAN : CooldownTick(fire)
    \/ CooldownFire

\* The application turning towards a goal.
AngleNext == \E start, goal \in Angles, m \in Movements : AngleTowards(start, goal, m)

(***************************************************************************)
(* Scriptable.do_later                                                     *)
(***************************************************************************)

\* The values of nb_of_frames the application gives do_later.
Delays == {0, 1, 2}

\* The routines a do_later made.
LaterRoutines == {r \in Routines : laterN[r] >= 0}

\* The scene and its script() routines call do_later only: none was called yet.
LaterInit ==
    /\ laterN = [r \in Routines |-> -1]
    /\ laterLeft = [r \in Routines |-> 0]
    /\ laterAt = [r \in Routines |-> 0]
    /\ laterRes = [r \in Routines |-> 0]
    /\ funcCalls = [r \in Routines |-> 0]

\* The generator script() of do_later(n) is created: it has n yields to make.
Decorated(g, n) ==
    /\ laterN' = [laterN EXCEPT ![g] = n]
    /\ laterLeft' = [laterLeft EXCEPT ![g] = n]
    /\ laterAt' = [laterAt EXCEPT ![g] = passNo]
    /\ UNCHANGED << laterRes, funcCalls >>

\* self.do_later(n)(func) called between two frames.
DoLaterOutside(n) ==
    /\ pc = "idle"
    /\ Unborn # {}
    /\ LET g == CHOOSE r \in NewRoutines(1) : TRUE
           res == add_script(scripts, scripts_to_add, script_add_lock, g)
       IN /\ scripts' = res.scripts
          /\ scripts_to_add' = res.scripts_to_add
          /\ gen' = [gen EXCEPT ![g] = "suspended"]
          /\ regPass' = [regPass EXCEPT ![g] = IF script_add_lock THEN passNo ELSE -1]
          /\ Decorated(g, n)
    /\ UNCHANGED << script_add_lock, to_remove, visited, pc, timer, frameWork, raised,
                    passNo, liveAtStart, resumedInPass, firstPass, stopPass, merges,
                    callVars >>
    /\ UNCHANGED << stackVars, loopVars, sceneVars, inputVars, partVars, utilVars, ownVars,
                    quitVars, transVars >>

\* next(script) runs a script() routine of the scene to its next yield; on its
\* way the routine calls self.do_later(n)(func).
ResumeYieldDoLater(r, n) ==
    /\ pc = "scripts"
    /\ r \in ScriptsLeft \ LaterRoutines
    /\ gen[r] = "suspended"
    /\ Unborn # {}
    /\ Stepped(r)
    /\ Registers(r, 1, "suspended")
    /\ Decorated(CHOOSE g \in NewRoutines(1) : TRUE, n)
    /\ UNCHANGED << script_add_lock, to_remove, pc, timer, frameWork, raised, passNo,
                    liveAtStart, stopPass, merges, callVars >>
    /\ UNCHANGED << stackVars, loopVars, sceneVars, inputVars, partVars, utilVars, ownVars,
                    quitVars, transVars >>

\* A routine that calls func with its last yield.
FiresOnLastYield(left) == left <= 1

\* "yield from range(nb_of_frames)" has no yield left: the resumption goes on
\* to func().
Fires(left) == left = 0

\* next(script) on the routine of a do_later: one more yield of the range,
\* or func() and the end of the generator, StopIteration.
ResumeDoLater(r) ==
    /\ pc = "scripts"
    /\ r \in ScriptsLeft \cap LaterRoutines
    /\ gen[r] = "suspended"
    /\ Stepped(r)
    /\ laterRes' = [laterRes EXCEPT ![r] = @ + 1]
    /\ IF Fires(laterLeft[r])
          THEN /\ funcCalls' = [funcCalls EXCEPT ![r] = @ + 1]
               /\ Registers(r, 0, "finished")
               /\ Raises(r, "StopIteration")
               /\ stopPass' = [stopPass EXCEPT ![r] = passNo]
               /\ UNCHANGED laterLeft
          ELSE /\ laterLeft' = [laterLeft EXCEPT ![r] = @ - 1]
               /\ Registers(r, 0, "suspended")
               /\ UNCHANGED << funcCalls, to_remove, pc, raised, stopPass >>
    /\ UNCHANGED << laterN, laterAt >>
    /\ UNCHANGED << script_add_lock, timer, frameWork, passNo, liveAtStart, merges,
                    callVars >>
    /\ UNCHANGED << stackVars, loopVars, sceneVars, inputVars, partVars, utilVars, ownVars,
                    quitVars, transVars >>

\* A scene whose code registers its routines with do_later.
LaterNext ==
    \/ \E n \in Delays : DoLaterOutside(n)
    \/ BeginLogic
    \/ \E r \in Routines \ LaterRoutines : ResumeYield(r, 0)
    \/ \E r \in Routines, n \in Delays : ResumeYieldDoLater(r, n)
    \/ \E r \in Routines \ LaterRoutines : ResumeStop(r, 0)
    \/ \E r \in Routines \ LaterRoutines : ResumeFault(r, 0)
    \/ \E r \in Routines : ResumeDoLater(r)
    \/ \E r \in Routines : ResumeExhausted(r)
    \/ EndPass
    \/ StateLogicRest
    \/ AppDraw

(***************************************************************************)
(* The routines of the entities of a scene                                 *)
(***************************************************************************)

\* No entity has called do_later yet.
OwnInit ==
    /\ oLeft = [e \in Entities |-> -1]
    /\ oFired = [e \in Entities |-> 0]
    /\ oGen = [e \in Entities |-> "none"]

\* What the other parts are to an entity's routines.
notOwn == << schedVars, stackVars, loopVars, inputVars, partVars, utilVars, laterVars,
            quitVars, transVars >>

\* Code between two frames calls entity.do_later(n)(func) on a live entity:
\* the lock of the entity is released, the routine is in its live set.
EntityDoLater(e, n) ==
    /\ spc = "idle"
    /\ e \in objects
    /\ alive[e]
    /\ oGen[e] = "none"
    /\ oLeft' = [oLeft EXCEPT ![e] = n]
    /\ oGen' = [oGen EXCEPT ![e] = "suspended"]
    /\ UNCHANGED << oFired, sceneVars, notOwn >>

\* A loop over every entity ever added to the scene.
EveryEntityMade == made

\* "for object in self.objects", the loop of State.logic that calls logic().
LogicTargets == objects

\* Object.logic, super().logic(): Scriptable.logic resumes the routine of the
\* entity's do_later: one more yield, or func() and StopIteration.
EntityScripts(e) ==
    IF oGen[e] # "suspended" THEN UNCHANGED ownVars
    ELSE IF Fires(oLeft[e])
        THEN /\ oFired' = [oFired EXCEPT ![e] = @ + 1]
             /\ oGen' = [oGen EXCEPT ![e] = "finished"]
             /\ UNCHANGED oLeft
        ELSE /\ oLeft' = [oLeft EXCEPT ![e] = @ - 1]
             /\ UNCHANGED << oFired, oGen >>

\* "for object in self.objects: object.logic()" at one entity: its routines
\* are resumed, then its own code may clear an alive flag.
EntityLogicScripts(e, kill) ==
    /\ spc = "entities"
    /\ e \in LogicTargets \ logicked
    /\ (e = debug) => kill = None
    /\ EntityScripts(e)
    /\ Acts([add |-> FALSE, Z |-> 0], kill, queued)
    /\ logicked' = logicked \cup {e}
    /\ selfKilled' = IF kill = e THEN selfKilled \cup {e} ELSE selfKilled
    /\ UNCHANGED << add_object_lock, spc, dead_found, cleaned, steps, drawn,
                    deaths >>
    /\ UNCHANGED notOwn

\* The entities removed from the scene: made, not live, not queued.
Removed == made \ (objects \cup Range(add_later))

\* A scene whose entities run do_later routines and kill each other.
OwnerNext ==
    \/ \E e \in Entities, n \in Delays : EntityDoLater(e, n)
    \/ \E c \in {a \in AddChoices : a.Z = 0} : HandleEvents(c)
    \/ SceneScripts([add |-> FALSE, Z |-> 0])
    \/ DrainAddLater
    \/ \E e \in Entities, kill \in Entities \cup {None} : EntityLogicScripts(e, kill)
    \/ ParticlesLogic
    \/ \E e \in Entities : Cleanup(e, [add |-> FALSE, Z |-> 0], None)
    \/ CleanupEnd
    \/ StateDraw(Sorted(objects))

(***************************************************************************)
(* App.quit                                                                *)
(***************************************************************************)

QuitInit ==
    /\ qpc = "running"
    /\ qstack = << >>
    /\ qlog = << >>

\* What App.quit leaves alone.
notQuit == << schedVars, loopVars, sceneVars, inputVars, partVars, utilVars, laterVars,
             ownVars, transVars >>

\* execute_state_transition(op, new): the setter applied to the descriptor,
\* with the hooks it calls.
execute_state_transition(op, new) ==
    LET res == state_setter(stack, op, new)
        sc == RunHooks([next_state |-> next_state, paused |-> paused,
                        lastHook |-> lastHook], res.hooks)
    IN /\ stack' = res.stack
       /\ next_state' = sc.next_state
       /\ paused' = sc.paused
       /\ lastHook' = sc.lastHook
       /\ hooks' = res.hooks
       /\ error' = res.error

\* The application runs: a frame ends with the transition the active scene
\* asked for.
AppRuns ==
    /\ qpc = "running"
    /\ stack # << >>
    /\ \E req \in {Descr("POP", None)}
                \cup {Descr("REPLACE", new) : new \in Scenes}
                \cup {Descr("PUSH", new) : new \in (IF Len(stack) < MaxDepth THEN Scenes ELSE {})} :
          execute_state_transition(req.op, req.new)
    /\ UNCHANGED << quitVars, lastOp, prevOp, prevStack, prev2Stack, reused, notQuit >>

\* handle_event gets pygame.QUIT and calls self.quit().
AppQuit ==
    /\ qpc = "running"
    /\ error = "none"
    /\ qpc' = "popping"
    /\ qstack' = stack
    /\ qlog' = << >>
    /\ UNCHANGED << stackVars, notQuit >>

\* A loop that leaves the bottom scene on the stack.
QuitUntilOneLeft(stk) == Len(stk) > 1

\* "while self.stack".
QuitLoopCondition(stk) == stk # << >>

\* The body of the loop of quit: execute_state_transition(POP, None).
QuitPop ==
    /\ qpc = "popping"
    /\ QuitLoopCondition(stack)
    /\ execute_state_transition("POP", None)
    /\ qlog' = qlog \o hooks'
    /\ UNCHANGED << qpc, qstack, lastOp, prevOp, prevStack, prev2Stack, reused, notQuit >>

\* After the loop: self.on_exit(), then sys.exit().
QuitOnExit ==
    /\ qpc = "popping"
    /\ ~QuitLoopCondition(stack)
    /\ qlog' = Append(qlog, Hook("App.on_exit", None))
    /\ qpc' = "exited"
    /\ UNCHANGED << qstack, stackVars, notQuit >>

QuitNext ==
    \/ AppRuns
    \/ AppQuit
    \/ QuitPop
    \/ QuitOnExit

(***************************************************************************)
(* StateTransition: a scene that replaces itself by its next scene         *)
(***************************************************************************)

\* The durations the application gives its transitions, in frames.
TransitionDurations == 1 .. MaxDuration

\* No transition has been constructed yet.
TransInit ==
    /\ tDuration = [s \in TransitionScenes |-> 1]
    /\ tTimer = [s \in TransitionScenes |-> 0]
    /\ tCalls = [s \in TransitionScenes |-> 0]
    /\ tFirst = [s \in TransitionScenes |-> 0]

\* What the actions on a transition leave alone besides the stack and the loop.
notTrans == << schedVars, sceneVars, inputVars, partVars, utilVars, laterVars, ownVars,
              quitVars >>

\* A progress that lags one frame behind the timer.
progress_lagging(t, d) == IF t - 1 >= d THEN << 1, 1 >> ELSE << t - 1, d >>

\* StateTransition.progress: min(1, self.timer / self.duration), as a fraction
\* (numerator, denominator); the quotient of two frame counts t < d is below 1.
progress(t, d) == IF t >= d THEN << 1, 1 >> ELSE << t, d >>

\* StateTransition.__init__(previous, next_, duration): State.__init__ leaves
\* the timer of the new scene at 0.
NewTransition(s, d) ==
    /\ tDuration' = [tDuration EXCEPT ![s] = d]
    /\ tTimer' = [tTimer EXCEPT ![s] = 0]
    /\ tCalls' = [tCalls EXCEPT ![s] = 0]
    /\ tFirst' = [tFirst EXCEPT ![s] = 0]

\* App.handle_events of the frame: the quit input of the active scene is bound
\* to pop_state and may have been pressed.
TransitionHandleEvents ==
    /\ lpc = "events"
    /\ state # None
    /\ calls' = Append(calls, Call("handle_events", state, None))
    /\ \/ /\ UNCHANGED next_state
          /\ requested' = NoRequest
       \/ /\ next_state' = [next_state EXCEPT ![state] = Descr("POP", None)]
          /\ requested' = Descr("POP", None)
    /\ earlier' = NoRequest.op
    /\ lpc' = "paused"
    /\ UNCHANGED << applied, notTrans, transVars, stack, paused, hooks, lastOp, prevOp,
                    prevStack, prev2Stack, lastHook, reused, error >>

\* StateTransition.logic of the active scene: State.logic, which ends a pass of
\* the routines and adds one to the timer, then the test of progress and the
\* request.
TransitionLogic ==
    /\ lpc = "logic"
    /\ state \in TransitionScenes
    /\ calls' = Append(calls, Call("logic", state, None))
    /\ LET s == state
           t == tTimer[s] + 1
           req == Descr("REPLACE", next_[s])
       IN /\ tTimer' = [tTimer EXCEPT ![s] = t]
          /\ tCalls' = [tCalls EXCEPT ![s] = @ + 1]
          /\ IF progress(t, tDuration[s]) = << 1, 1 >>
                THEN /\ next_state' = [next_state EXCEPT ![s] = req]
                     /\ requested' = req
                     /\ earlier' = requested.op
                     /\ tFirst' = IF tFirst[s] = 0
                                     THEN [tFirst EXCEPT ![s] = tCalls[s] + 1]
                                     ELSE tFirst
                ELSE /\ UNCHANGED << next_state, requested, tFirst >>
                     /\ earlier' = NoRequest.op
    /\ lpc' = "draw"
    /\ UNCHANGED << tDuration, applied, notTrans, stack, paused, hooks, lastOp, prevOp,
                    prevStack, prev2Stack, lastHook, reused, error >>

\* The logic of an active scene that is no transition: it asks for nothing, for
\* a pop, for another scene, or it constructs a transition and asks for it.
SceneLogic ==
    /\ lpc = "logic"
    /\ state # None
    /\ state \notin TransitionScenes
    /\ calls' = Append(calls, Call("logic", state, None))
    /\ LET ops == {"REPLACE"} \cup (IF Len(stack) < MaxDepth THEN {"PUSH"} ELSE {})
       IN \/ /\ UNCHANGED << next_state, requested, transVars >>
             /\ earlier' = NoRequest.op
          \/ /\ \E req \in {Descr("POP", None)}
                       \cup {Descr(op, new) : op \in ops, new \in Scenes \ TransitionScenes} :
                   /\ next_state' = [next_state EXCEPT ![state] = req]
                   /\ requested' = req
             /\ earlier' = requested.op
             /\ UNCHANGED transVars
          \/ /\ \E op \in ops, s \in TransitionScenes \ Range(stack), d \in TransitionDurations :
                   /\ NewTransition(s, d)
                   /\ next_state' = [next_state EXCEPT ![state] = Descr(op, s)]
                   /\ requested' = Descr(op, s)
             /\ earlier' = requested.op
    /\ lpc' = "draw"
    /\ UNCHANGED << applied, notTrans, stack, paused, hooks, lastOp, prevOp,
                    prevStack, prev2Stack, lastHook, reused, error >>

TransitionNext ==
    \/ LoopTest
    \/ TransitionHandleEvents
    \/ AppPausedLogic
    \/ TransitionLogic
    \/ SceneLogic
    \/ AppDrawTick
    \/ AppNextState

Init ==
    /\ SchedInit /\ StackInit /\ LoopInit /\ SceneInit /\ InputsInit /\ PartInit
    /\ UtilInit /\ LaterInit /\ OwnInit /\ QuitInit /\ TransInit

\* quit is one call: once begun, its loop and its last statements run on.
QuitSpec == Init /\ [][QuitNext]_vars /\ WF_vars(QuitPop \/ QuitOnExit)

TransitionSpec == Init /\ [][TransitionNext]_vars

OwnerSpec == Init /\ [][OwnerNext]_vars

LaterSpec == Init /\ [][LaterNext]_vars

CooldownSpec == Init /\ [][CooldownNext]_vars

AngleSpec == Init /\ [][AngleNext]_vars

SchedSpec == Init /\ [][SchedNext]_vars

StackSpec == Init /\ [][StackNext]_vars

LoopSpec == Init /\ [][LoopNext]_vars

SceneSpec == Init /\ [][SceneNext]_vars

InputsSpec == Init /\ [][InputsNext]_vars

ParticleSpec == Init /\ [][ParticleNext]_vars

EngineSpec == Init /\ [][EngineNext]_vars


(***************************************************************************)
(* Properties of the script scheduler, checked under SchedSpec.            *)
(***************************************************************************)

\* logic() has returned to State.logic, to App.run or to the next frame's start.
PassReturned == pc \in {"logic", "draw", "idle"}

C3_CompletedNeverLiveAgain ==
    \A r \in Routines :
        (stopPass[r] # 0 /\ (passNo > stopPass[r] \/ PassReturned)) => r \notin scripts

\* C4: the pending-addition buffer is drained once the pass completes: after
\* every logic() call has returned scripts_to_add is empty, and no routine is
\* merged from the buffer into the live set more than once.
C4_BufferDrainedAfterPass ==
    PassReturned => (scripts_to_add = {} /\ \A r \in Routines : merges[r] <= 1)

\* C5: a fault raised by a routine being resumed is not caught by logic(): it
\* leaves logic(), State.logic() and the frame driver, and the rest of the
\* frame's work (timer, queued entities, entity logic, particle step, cleanup,
\* draw) is not executed: logic() is left in the middle, its lock still held.
C5_FaultAbandonsFrame ==
    \A r \in Routines : gen[r] = "faulted" =>
        /\ pc = "crashed"
        /\ raised = r
        /\ frameWork \cap (RestOfLogic \cup {"draw"}) = {}
        /\ timer = passNo - 1
        /\ script_add_lock

\* A routine has raised a fault while another live routine was still to be
\* resumed in the pass.
C5_Witness ==
    /\ pc = "crashed"
    /\ raised \in Routines
    /\ gen[raised] = "faulted"
    /\ ScriptsLeft # {}

\* C32: do_later(n)(func) calls func exactly once and n frames after
\* registration: func is not called during any of the first n passes in which
\* the routine is resumed and is called during the next one, which is pass n+1
\* after the registration, and the routine is then complete; once that pass
\* has returned func has been called.
C32_DoLaterFiresOnceAfterN ==
    \A r \in LaterRoutines :
        /\ funcCalls[r] = IF laterRes[r] > laterN[r] THEN 1 ELSE 0
        /\ funcCalls[r] = 1 =>
               /\ gen[r] = "finished"
               /\ laterRes[r] = laterN[r] + 1
               /\ stopPass[r] = laterAt[r] + laterN[r] + 1
        /\ (PassReturned /\ passNo >= laterAt[r] + laterN[r] + 1) => funcCalls[r] = 1

\* A do_later(1) called by a routine during a pass: its routine was resumed
\* in the next pass without a call of func and has called func in the pass
\* after that one, which has returned.
C32_Witness ==
    \E r \in LaterRoutines :
        /\ laterN[r] = 1
        /\ regPass[r] >= 1
        /\ firstPass[r] = regPass[r] + 1
        /\ funcCalls[r] = 1
        /\ stopPass[r] = regPass[r] + 2
        /\ PassReturned

\* C35: constructing an Object or a State registers exactly one routine made
\* from its script() method, so the body of an overridden script() advances
\* exactly one step per logic() call of its owner, not two: when a pass has
\* returned, one resumption of a script() routine has happened in it at most,
\* and the first pass has one.
C35_ScriptStepsOncePerLogic ==
    pc = "logic" =>
        /\ Cardinality({r \in ScriptRoutines : resumedInPass[r] > 0}) <= 1
        /\ passNo = 1 => Cardinality({r \in ScriptRoutines : resumedInPass[r] = 1}) = 1

\* C36: script_add_lock is true only while a logic() pass is in progress:
\* whenever logic() has returned, or has been left by the fault of a routine,
\* the lock is false.
C36_LockOnlyDuringPass == script_add_lock => pc = "scripts"

\* C30: a scene's timer is a monotonic frame counter: it never decreases, it
\* increases by exactly 1 on every logic() call the scene receives while
\* active, and it is left unchanged by the frames in which the scene is paused
\* below the top and by the lifecycle hooks.
C30_TimerCountsEveryLogicCall ==
    /\ timer >= timerAt
    /\ (lastCall = "logic" /\ pc \in {"draw", "idle", "crashed"}) => timer = timerAt + 1
    /\ lastCall \in {"paused_logic", "on_exit", "on_resume"} => timer = timerAt

\* C30: the timer never decreases; it increases by exactly 1 on every logic()
\* call whose pass over the routines completes and is left unchanged by a
\* logic() call that the fault of a routine abandons, by the frames in which
\* the scene is paused below the top and by the lifecycle hooks: it is the
\* number of logic() calls whose pass over the routines has completed.
C30_TimerCountsCompletedPasses ==
    /\ timer >= timerAt
    /\ (lastCall = "logic" /\ pc \in {"draw", "idle"}) => timer = timerAt + 1
    /\ (lastCall = "logic" /\ pc \in {"scripts", "logic", "crashed"}) => timer = timerAt
    /\ lastCall \in {"paused_logic", "on_exit", "on_resume"} => timer = timerAt
    /\ timer = IF pc \in {"scripts", "logic", "crashed"} THEN passNo - 1 ELSE passNo

\* The scene has had a logic() call that returned, has been left, paused for
\* a frame and resumed, and a routine has raised a fault in its logic() call.
C30_Witness ==
    /\ pc = "crashed"
    /\ lastCall = "logic"
    /\ timer >= 1
    /\ {"on_exit", "paused_logic", "on_resume"} \subseteq received

(***************************************************************************)
(* Properties of the scene stack machine, checked under StackSpec.         *)
(***************************************************************************)

\* C6: applying pop to a non-empty stack removes exactly the top scene, invokes
\* on_exit on it exactly once, and then invokes on_resume on the new top if and
\* only if the stack is still non-empty; on a single-element stack the result
\* is the empty stack and no scene is resumed.
C6_PopRemovesTop ==
    (error = "none" /\ lastOp.op = "POP" /\ prevStack # << >>) =>
        /\ stack = Front(prevStack)
        /\ hooks = IF stack = << >>
                       THEN << Hook("on_exit", Last(prevStack)) >>
                       ELSE << Hook("on_exit", Last(prevStack)),
                               Hook("on_resume", Last(stack)) >>

\* The only scene of the stack has been popped.
C6_Witness ==
    /\ lastOp.op = "POP"
    /\ Len(prevStack) = 1
    /\ stack = << >>
    /\ hooks = << Hook("on_exit", prevStack[1]) >>

\* C7: if the active scene A requested push(B) in one frame and B requested pop
\* in the following frame, the stack is again what it was before the push, with
\* A on top, and A has been notified through the resume hook and not through
\* the enter hook: the pop invoked on_exit on B and then on_resume on A, and the
\* hook it invoked on A is not the hook by which the push had entered B.
C7_PushThenPopResumes ==
    (error = "none" /\ lastOp.op = "POP" /\ prevOp.op = "PUSH" /\ prev2Stack # << >>) =>
        /\ stack = prev2Stack
        /\ hooks = << Hook("on_exit", prevOp.new), Hook("on_resume", Last(prev2Stack)) >>
        /\ Last(hooks)[1] # Last(SetPUSH(prev2Stack, prevOp.new).hooks)[1]

\* C8: applying push(new) to a non-empty stack invokes a pause hook, not
\* on_exit, on the old top and then the entering hook on the new scene, in that
\* order; the old stack stays as it is beneath the new top.
C8_PushPausesOldTop ==
    (error = "none" /\ lastOp.op = "PUSH" /\ prevStack # << >>) =>
        /\ stack = Append(prevStack, lastOp.new)
        /\ Len(hooks) = 2
        /\ hooks[1][2] = Last(prevStack)
        /\ hooks[1][1] # "on_exit"
        /\ hooks[2] = Hook("on_resume", lastOp.new)

\* C9: when the active scene A requested replace(B), at the start of the next
\* frame the active scene is B, on_exit has been invoked on A and then B has
\* been entered (on_resume), the depth is unchanged, the scenes beneath are
\* unchanged and no hook was invoked for a position beneath the top.
C9_ReplaceSwapsTop ==
    (error = "none" /\ lastOp.op = "REPLACE" /\ prevStack # << >>) =>
        /\ stack = Append(Front(prevStack), lastOp.new)
        /\ Len(stack) = Len(prevStack)
        /\ hooks = << Hook("on_exit", Last(prevStack)), Hook("on_resume", lastOp.new) >>
        /\ lastHook[Last(stack)] = "on_resume"

\* The top of a stack of two scenes has been replaced by a third scene.
C9_Witness ==
    /\ lastOp.op = "REPLACE"
    /\ Len(prevStack) = 2
    /\ lastOp.new \notin Range(prevStack)
    /\ stack = << prevStack[1], lastOp.new >>

\* C10: every scene instance is in exactly one lifecycle state: no instance
\* occupies two stack positions, exactly the last element of a non-empty stack
\* is active (the last hook it was told is on_resume), a scene that was told
\* on_exit is not in the stack, and neither is a scene that was never entered.
\* Stated for the runs in which every push and replace brings a new instance.
C10_LifecyclePartition ==
    (~reused /\ error = "none") =>
        /\ \A i, j \in 1 .. Len(stack) : stack[i] = stack[j] => i = j
        /\ \A i \in 1 .. Len(stack) : (lastHook[stack[i]] = "on_resume") <=> (i = Len(stack))
        /\ \A s \in Scenes : lastHook[s] = "on_exit" => s \notin Range(stack)
        /\ \A s \in Scenes : lastHook[s] = "none" => s \notin Range(stack)

\* The descriptor does not have the arguments its operation needs.
InvalidArguments(d) ==
    \/ d.op \in {"PUSH", "REPLACE"} /\ d.new = None
    \/ d.op = "POP" /\ d.new # None
    \/ d.op \notin {"NOP", "POP", "PUSH", "REPLACE"}

\* C13: applying a stack operation with invalid arguments (replace or push
\* without a new scene, pop with a scene, an unknown operation tag) fails with an
\* error, and it fails before any scene is removed from or added to the stack
\* and before any lifecycle hook is invoked: the stack is unchanged on error.
C13_InvalidArgumentsFailFast ==
    /\ InvalidArguments(lastOp) =>
            (error # "none" /\ stack = prevStack /\ hooks = << >>)
    /\ error # "none" => InvalidArguments(lastOp)

\* A replace without a new scene was refused on a stack of two scenes.
C13_Witness ==
    /\ lastOp = Descr("REPLACE", None)
    /\ error = "AssertionError"
    /\ Len(stack) = 2
    /\ stack = prevStack

(***************************************************************************)
(* Properties of State.create_inputs, checked under InputsSpec.            *)
(***************************************************************************)

\* An entity of the live collection declares a name that the scene or another
\* entity of the collection binds.
BindingConflict ==
    \E e \in objects :
        \/ declared[e] \cap SceneBindings # {}
        \/ \E f \in objects \ {e} : declared[e] \cap declared[f] # {}

\* C14: when a scene is activated and one of its entities declares a binding
\* whose name is already bound by the scene itself or by another entity of the
\* scene, the activation fails with ValueError and no binding is ever
\* overridden; without such an entity the activation succeeds with every
\* binding of the scene and of its entities in place.
C14_ConflictingBindingsFail ==
    /\ ci_pc = "resumed" =>
            /\ ~BindingConflict
            /\ inputs = {<< n, None >> : n \in SceneBindings}
                        \cup UNION {{<< n, e >> : n \in declared[e]} : e \in objects}
    /\ ci_pc = "ValueError" => BindingConflict
    /\ \A p, q \in inputs : p[1] = q[1] => p = q
    /\ ci_pc # "idle" => {<< n, None >> : n \in SceneBindings} \subseteq inputs

\* The activation failed on two entities that declare the same name, after the
\* Debug entity or the first of them was bound.
C14_Witness ==
    /\ ci_pc = "ValueError"
    /\ Cardinality(inputs) > Cardinality(SceneBindings)
    /\ \A e \in objects : declared[e] \cap SceneBindings = {}
    /\ \E e, f \in objects \ {debug} : e # f /\ declared[e] \cap declared[f] # {}

(***************************************************************************)
(* Properties of the host loop, checked under LoopSpec.                    *)
(***************************************************************************)

\* App.run is inside the body of its loop.
InFrame == lpc \in {"events", "paused", "logic", "draw", "next"}

\* C11: the machine is running exactly when the stack is non-empty (running
\* iff state is not None iff len(stack) > 0); the host loop is inside a frame
\* only while the stack is non-empty; once a pop has emptied the stack no
\* logic, paused_logic or draw is invoked on any scene, and the loop ends
\* without an error.
C11_RunsWhileNonEmpty ==
    /\ running <=> (state # None)
    /\ running <=> (stack # << >>)
    /\ InFrame => running
    /\ ~running => (calls = << >> /\ lpc \in {"test", "ended"})
    /\ lpc = "ended" => (~running /\ Len(hooks) = 1 /\ hooks[1][1] = "on_exit")
    /\ lpc = "crashed" => error # "none"

\* The only scene of the stack was popped and the loop has ended.
C11_Witness ==
    /\ lpc = "ended"
    /\ stack = << >>
    /\ \E s \in Scenes : hooks = << Hook("on_exit", s) >> /\ lastHook[s] = "on_exit"

\* The number of calls of method m that scene s received since the last transition.
Received(m, s) ==
    Cardinality({i \in 1 .. Len(calls) : calls[i][1] = m /\ calls[i][2] = s})

\* No scene instance is at two positions of the stack.
NoSceneTwice == \A i, j \in 1 .. Len(stack) : stack[i] = stack[j] => i = j

\* C12 as claimed: in every frame exactly the top scene receives
\* handle_events, logic and draw, once each, and every scene below the top
\* receives exactly one paused_logic and none of the three; no other scene
\* receives anything.
C12_OnlyTopReceivesFrame ==
    (lpc = "next" /\ NoSceneTwice) =>
        \A s \in Scenes :
            /\ \A m \in {"handle_events", "logic", "draw"} :
                    Received(m, s) = IF s = Last(stack) THEN 1 ELSE 0
            /\ Received("paused_logic", s) = IF s \in Range(Front(stack)) THEN 1 ELSE 0

\* The calls App.run itself made since the last transition.
HostCalls == SelectSeq(calls, LAMBDA c : c[3] = None)

\* C12, amended: in every frame the host loop itself invokes handle_events,
\* then paused_logic once for each stack position below the top, then logic,
\* then draw, the three on the top scene only; every other call is a draw that
\* the top scene, a transition scene, makes on its previous or its next scene.
C12_HostCallsOnlyTop ==
    lpc = "next" =>
        /\ HostCalls = << Call("handle_events", Last(stack), None) >>
                       \o [i \in 1 .. Len(stack) - 1 |-> Call("paused_logic", stack[i], None)]
                       \o << Call("logic", Last(stack), None), Call("draw", Last(stack), None) >>
        /\ \A i \in 1 .. Len(calls) : calls[i][3] # None =>
                /\ calls[i][1] = "draw"
                /\ calls[i][3] = Last(stack)
                /\ Last(stack) \in TransitionScenes
                /\ calls[i][2] \in {previous[Last(stack)], next_[Last(stack)]}

\* A frame has run with a transition scene on top of another scene.
C12_Witness ==
    /\ lpc = "next"
    /\ Len(stack) = 2
    /\ Last(stack) \in TransitionScenes
    /\ stack[1] \notin TransitionScenes
    /\ Received("paused_logic", stack[1]) = 1

\* C21: a transition requested by a scene is consumed by the machine exactly
\* once: it is applied once after that frame's logic and never again in a
\* later frame; a scene that becomes the active scene again after a pop has
\* the no-op descriptor pending.
C21_RequestConsumedOnce ==
    /\ (lpc \in {"test", "events"} /\ state # None) => next_state[state].op = "NOP"
    /\ lpc \in {"test", "crashed"} =>
            /\ applied.op # "NOP" => applied = requested
            /\ requested.op # "NOP" => applied = requested

\* A pop has made the scene below, whose push had been applied, the active
\* scene again.
C21_Witness ==
    /\ lpc = "test"
    /\ applied = Descr("POP", None)
    /\ state # None
    /\ lastHook[state] = "on_resume"
    /\ \E s \in Scenes : lastHook[s] = "on_exit"

\* C37: a scene holds a single pending-transition descriptor: when the active
\* scene calls more than one of pop_state, push_state and replace_state within
\* one frame, the descriptor holds the last request only, that request alone
\* is applied to the stack at the end of the frame and the setter calls the
\* hooks of that one request: the earlier requests have no effect.
C37_LastRequestWins ==
    /\ []((lpc \in {"draw", "next"} /\ state # None) => next_state[state] = requested)
    /\ [][lpc = "next" =>
              LET res == state_setter(stack, requested.op, requested.new)
              IN /\ stack' = res.stack
                 /\ hooks' = res.hooks
                 /\ error' = res.error
                 /\ applied' = requested]_vars

\* The active scene asked for a push while it handled the events and for a pop
\* in its logic; the frame has ended with the pop applied: the scene has left
\* the stack and no other scene has ever received a hook.
C37_Witness ==
    /\ lpc = "test"
    /\ earlier = "PUSH"
    /\ applied = Descr("POP", None)
    /\ error = "none"
    /\ hooks = << << "on_exit", 1 >> >>
    /\ \A s \in Scenes \ {1} : lastHook[s] = "none"

\* C22: within one frame the active scene's pending transition is applied to
\* the stack after the scene's logic and before the draw step, so the scene
\* drawn in a frame is the top of the stack as it is after that frame's
\* transition: when App.draw has returned, the request of the frame has been
\* handed to the setter and no request is left pending.
C22_TransitionBeforeDraw ==
    lpc = "next" =>
        /\ applied = requested
        /\ next_state[state].op = "NOP"
        /\ Call("draw", state, None) \in Range(calls)

(***************************************************************************)
(* Properties of State.logic and State.draw, checked under SceneSpec.      *)
(***************************************************************************)

\* A frame has run to the end of State.draw and the next has not started.
FrameDone == spc = "idle" /\ steps # << >>

\* The entities of the draw order of the frame.
DrawnEntities == Range(drawn) \ {Particles}

\* C15: an entity added through the queued-add path receives neither logic()
\* nor draw() in the frame in which it was added, and is live and receives
\* both from the next frame on.
C15_QueuedAddWaitsForNextFrame ==
    \A e \in Entities :
        /\ queued[e] = "now" => (e \notin logicked /\ e \notin DrawnEntities)
        /\ (queued[e] = "before" /\ FrameDone /\ e \in objects) =>
                (e \in logicked /\ e \in DrawnEntities)

\* C16: within one logic() call the queued-add buffer is drained, then the
\* scheduler is stepped, then logic() runs on every live entity, then the
\* particle engine is stepped, then dead entities are cleaned up.
C16_DrainBeforeScheduler ==
    spc = "draw" => steps = << "drain", "scheduler", "entity_logic", "particles", "cleanup" >>

\* C17: an entity whose alive flag is cleared during its own logic() has
\* on_death() invoked before the scene's logic() of that frame returns, is
\* removed from the live collection in that pass and is not drawn by the
\* draw() of that frame.
C17_SelfKilledDiesInFrame ==
    \A e \in selfKilled :
        /\ spc \in {"draw", "idle"} => (deaths[e] = 1 /\ e \notin objects)
        /\ e \notin DrawnEntities

\* A frame was drawn in which an entity cleared its own alive flag while
\* another entity stayed live.
C17_Witness ==
    /\ FrameDone
    /\ selfKilled # {}
    /\ objects \ {debug} # {}
    /\ Len(drawn) >= 3

\* C18: on_death() is invoked exactly once over the life of an entity, in the
\* cleanup of the first logic() pass that finds it not alive, together with
\* its removal from the live collection; never for an entity that is alive
\* and never a second time, whatever other entities or death hooks do.
C18_OnDeathExactlyOnce ==
    \A e \in Entities :
        /\ deaths[e] <= 1
        /\ deaths[e] = 1 => (e \in made /\ ~alive[e])
        /\ (deaths[e] = 1 /\ e \in objects) => (spc = "cleanup" /\ e \in dead_found)
        /\ e \in dead_found => (deaths[e] = 1 /\ e \in cleaned)
        /\ (e \in made /\ e \notin objects /\ e \notin Range(add_later)) => deaths[e] = 1
        /\ (spc = "cleanup" /\ e \in cleaned /\ e \in objects /\ deaths[e] = 0 /\ ~alive[e]) =>
                dead_found # {}

\* A cleanup pass has ended in which the death hook of a dying entity cleared
\* the alive flag of an entity the pass had already looked at.
C18_Witness ==
    /\ spc = "draw"
    /\ \E f \in made \ objects : deaths[f] = 1
    /\ \E e \in objects : ~alive[e] /\ deaths[e] = 0

\* C19: in every State.draw() call each live entity is drawn exactly once and
\* entities are drawn in ascending depth-key order.
C19_DrawAscendingOnce ==
    FrameDone =>
        /\ DrawnEntities = objects
        /\ \A i, j \in 1 .. Len(drawn) : (drawn[i] = drawn[j]) => i = j
        /\ \A i, j \in 1 .. Len(drawn) :
               (drawn[i] # Particles /\ drawn[j] # Particles /\ Z[drawn[i]] < Z[drawn[j]]) => i < j

\* A frame drew three entities of at least two depth keys, one of a lower key
\* constructed after one of a higher key.
C19_Witness ==
    /\ FrameDone
    /\ Cardinality(DrawnEntities) >= 3
    /\ \E a, b \in DrawnEntities : a > b /\ Z[a] < Z[b] /\ b # debug

\* The place of the particle layer in the draw order of the frame.
ParticlesAt == CHOOSE i \in 1 .. Len(drawn) : drawn[i] = Particles

FirstNonNegative ==
    LET nn == {Z[o] : o \in {x \in objects : Z[x] >= 0}}
    IN IF nn = {} THEN None ELSE CHOOSE z \in nn : \A y \in nn : z <= y

C38_ParticleLayerDrawnOnce ==
    FrameDone =>
        /\ Cardinality({i \in 1 .. Len(drawn) : drawn[i] = Particles}) = 1
        /\ objects = {} => drawn = << Particles >>
        /\ Len(drawn) = Cardinality(objects) + 1

\* A frame drew a scene that had no entity left, not even its Debug entity.
C38_Witness ==
    /\ FrameDone
    /\ objects = {}
    /\ drawn = << Particles >>

(***************************************************************************)
(* Properties of Particle.logic, checked under ParticleSpec.               *)
(***************************************************************************)

\* C23: a particle built with lifespan L, with speed >= 0 and size > 0
\* throughout, is still alive after each of its first L-1 updates and is
\* marked dead in exactly its L-th update, for every L.
C23_DiesInUpdateL ==
    \A id \in Pids :
        LET p == parts[id]
        IN /\ p.alive => p.updates < p.lifespan
           /\ (~p.alive /\ p.speed >= 0 /\ p.chkSize > 0) => p.updates = p.lifespan

\* C24: in the update in which a particle becomes non-viable none of its
\* closures is run, and none in a later update; in every update in which it
\* stays viable every registered closure is run exactly once.
C24_NoClosureOnceNonViable ==
    \A id \in Pids :
        LET p == parts[id]
        IN /\ ~p.alive => (p.ran = << >> /\ id \notin psys)
           /\ (p.alive /\ p.updates >= 1) => p.ran = p.animations

\* A particle with two closures was updated, its closures run, and then
\* became non-viable.
C24_Witness ==
    \E id \in Pids :
        /\ ~parts[id].alive
        /\ parts[id].updates >= 2
        /\ Len(parts[id].animations) = 2
        /\ parts[id].alpha # 255

\* C25: the closures of a viable particle run in the order in which they were
\* registered, each after the kinematic integration of the update, so a
\* closure observes what the closures registered before it did in the update.
C25_ClosuresInRegistrationOrder ==
    \A id \in Pids :
        LET p == parts[id]
        IN (p.alive /\ p.updates >= 1) =>
               /\ p.ran = p.animations
               /\ p.animations = << "zero", "bump" >> => p.alpha = 1
               /\ p.animations = << "bump", "zero" >> => p.alpha = 0
               /\ p.size = p.chkSize
                            - p.speed * Cardinality({i \in 1 .. Len(p.animations) :
                                                       p.animations[i] = "drag"})

\* A particle that decelerates was updated twice with "zero" registered
\* before "bump": the later closure saw the alpha the earlier one had set.
C25_Witness ==
    \E id \in Pids :
        /\ parts[id].alive
        /\ parts[id].updates >= 2
        /\ parts[id].animations = << "zero", "bump" >>
        /\ parts[id].acc # 0
        /\ parts[id].alpha = 1

\* C26: a particle is destroyed (marked dead and removed from the engine) in
\* the first update in which its lifetime proportion has reached 1, or its
\* speed is non-positive (speed <= 0, a speed of exactly 0 included), or its
\* size is non-positive.
C26_DestroyedWhenNonPositive ==
    \A id \in Pids :
        LET p == parts[id]
        IN /\ p.updates >= 1 =>
                  (p.alive <=> (p.speed > 0 /\ p.chkSize > 0 /\ ~FloatGE1(p.life_prop)))
           /\ ~p.alive => id \notin psys

\* C26 (amended): a particle is destroyed (marked dead and removed from the
\* engine) in the first update whose viability test, made after the kinematic
\* integration of the update and before its closures, finds its lifetime
\* proportion at 1 or more, its speed negative (a speed of exactly 0 does not
\* destroy it), or its size non-positive.
C26_DestroyedWhenNonViable ==
    \A id \in Pids :
        LET p == parts[id]
        IN /\ p.updates >= 1 =>
                  (p.alive <=> (p.speed >= 0 /\ p.chkSize > 0 /\ ~FloatGE1(p.life_prop)))
           /\ ~p.alive => id \notin psys
           /\ (p.alive /\ p.updates >= 1) => id \in psys

\* A particle that stands still has been updated twice and is in the engine.
C26_Witness ==
    \E id \in psys :
        /\ parts[id].alive
        /\ parts[id].updates >= 2
        /\ parts[id].speed = 0

(***************************************************************************)
(* Properties of ParticleSystem and ParticleFountain, checked under        *)
(* EngineSpec.                                                             *)
(***************************************************************************)

\* The particles the last ParticleSystem.logic() updated.
Updated == {elog[k][2] : k \in {i \in 1 .. Len(elog) : elog[i][1] = "logic"}}

\* C27: after every ParticleSystem.logic() call the engine contains no dead
\* particle: a particle marked dead during an update is removed in that
\* update, so it never receives another update and is never drawn.
C27_NoDeadParticleInEngine ==
    /\ \A id \in psys : parts[id].alive
    /\ \A id \in pdrawn : parts[id].alive
    /\ elog # << >> =>
           /\ Last(elog) = << "remove", {id \in Updated : ~parts[id].alive} >>
           /\ psys = {id \in Updated : parts[id].alive}

\* The system was drawn after a logic() that removed a particle and kept another.
C27_Witness ==
    /\ elog # << >>
    /\ Last(elog)[2] # {}
    /\ psys # {}
    /\ pdrawn = psys

\* C28: in every engine update all fountains run before any particle is
\* updated and dead particles are removed only after all particles were
\* updated: a particle a fountain spawns in an update receives its first
\* update in that same update.
C28_FountainsBeforeParticles ==
    /\ elog # << >> =>
           /\ Last(elog)[1] = "remove"
           /\ \A k \in 1 .. Len(elog) - 1 : elog[k][1] # "remove"
           /\ \A i, j \in 1 .. Len(elog) :
                  (elog[i][1] = "logic" /\ elog[j][1] = "fountain") => j < i
           /\ \A j \in 1 .. Len(elog) :
                  elog[j][1] = "fountain" =>
                      /\ elog[j][3] \in Updated
                      /\ parts[elog[j][3]].updates = 1
    /\ \A id \in psys : parts[id].byFountain => parts[id].updates >= 1

\* A fountain spawned a particle in an update that also gave an older
\* particle its last update and removed it.
C28_Witness ==
    /\ \E j \in 1 .. Len(elog) :
           /\ elog[j][1] = "fountain"
           /\ elog[j][3] \in psys
    /\ elog # << >>
    /\ \E id \in Last(elog)[2] : parts[id].updates = 2

\* C29: for a fountain with rate r >= 0 the number of particles its factory
\* adds in one frame is floor(r) or floor(r)+1 whatever the random draw, and
\* exactly r when r is an integer: a fountain of rate 1.0 emits exactly one
\* particle every frame.
C29_EmissionCount ==
    \A i \in 1 .. Len(emitted) :
        /\ emitted[i] \in {fountains[i].frequency \div 10, fountains[i].frequency \div 10 + 1}
        /\ fountains[i].frequency % 10 = 0 => 10 * emitted[i] = fountains[i].frequency

\* In one frame a fountain of rate 1.0 emitted one particle and a fountain of
\* rate 2.3 two.
C29_Witness ==
    \E i, j \in 1 .. Len(emitted) :
        /\ fountains[i].frequency = 10
        /\ emitted[i] = 1
        /\ fountains[j].frequency = 23
        /\ emitted[j] = 2


(***************************************************************************)
(* Properties of Cooldown, checked under CooldownSpec, and of              *)
(* angle_towards, checked under AngleSpec.                                 *)
(***************************************************************************)

\* C33: Cooldown.lock_for(d) locks the cooldown for d ticks and, when the
\* cooldown is already locked (locked_for > 0), increases the remaining lock:
\* the new locked_for is never smaller than the old one and is larger for
\* d > 0.
C33_LockForIncreasesLock ==
    cdCall = "lock_for" =>
        IF lockedBefore > 0
            THEN /\ locked_for >= lockedBefore
                 /\ lockDur > 0 => locked_for > lockedBefore
            ELSE locked_for = lockDur

\* C34: angle_towards(start, goal, m), for m >= 0, returns an angle that
\* differs from start by at most m degrees and whose circular distance to
\* goal is max(0, d - m), d the circular distance from start to goal, also
\* when the shortest way from start to goal wraps around 0/360.
C34_AngleTowardsGoal ==
    LET d == CircularDistance(aStart, aGoal)
    IN /\ CircularDistance(aResult, aStart) <= aMax
       /\ CircularDistance(aResult, aGoal) = IF d > aMax THEN d - aMax ELSE 0


(***************************************************************************)
(* Properties of the routines of entities, checked under OwnerSpec.        *)
(***************************************************************************)

\* C31: once an object has died and been removed from its scene none of its
\* routines is resumed again (a do_later callback that has not fired never
\* fires) and none is unwound by force: no step changes the generator of a
\* removed entity, its yields left or the calls of its function; whereas the
\* routines of the scene itself are resumed in every logic() of the scene.
C31_RemovedEntityRoutinesStop ==
    /\ [][\A e \in Removed :
              /\ oGen'[e] = oGen[e]
              /\ oLeft'[e] = oLeft[e]
              /\ oFired'[e] = oFired[e]]_vars
    /\ [](\A e \in Entities : oGen[e] # "closed")
    /\ [](spc \in {"drain", "entities", "cleanup", "draw"} => steps[1] = "scheduler")

\* An entity with a do_later that has not fired was removed, and the scene
\* has run the logic() of a later frame with entities still live.
C31_Witness ==
    /\ \E e \in Removed : oGen[e] = "suspended" /\ oFired[e] = 0 /\ e \notin logicked
    /\ spc = "draw"
    /\ logicked # {}


(***************************************************************************)
(* Properties of App.quit, checked under QuitSpec.                         *)
(***************************************************************************)

\* The scenes that have received on_exit since quit was called, in order.
QuitExits == SelectSeq(qlog, LAMBDA h : h[1] = "on_exit")

\* C39: App.quit() terminates for any stack depth: it pops the scenes one at
\* a time from the top until the stack is empty, calling the exit hook of each
\* scene as it is popped, and only then calls the on_exit hook of the app; no
\* logic() or draw() of a scene runs in between.
C39_QuitPopsEveryScene ==
    /\ [](qpc = "popping" =>
            /\ stack = SubSeq(qstack, 1, Len(stack))
            /\ Len(QuitExits) = Len(qstack) - Len(stack)
            /\ \A i \in 1 .. Len(QuitExits) : QuitExits[i][2] = qstack[Len(qstack) + 1 - i]
            /\ \A i \in 1 .. Len(qlog) : qlog[i][1] \in {"on_exit", "on_resume"})
    /\ [](qpc = "exited" =>
            /\ stack = << >>
            /\ Len(QuitExits) = Len(qstack)
            /\ qlog[Len(qlog)] = Hook("App.on_exit", None)
            /\ \A i \in 1 .. Len(qlog) - 1 : qlog[i][1] \in {"on_exit", "on_resume"})
    /\ (qpc = "popping" ~> qpc = "exited")

\* quit was called with two scenes on the stack and has returned.
C39_Witness ==
    /\ qpc = "exited"
    /\ Len(qstack) = MaxDepth
    /\ Len(QuitExits) = MaxDepth


(***************************************************************************)
(* Properties of StateTransition                                           *)
(***************************************************************************)

\* The frame ends with the request of the active transition for its next scene.
TransitionApplies ==
    /\ lpc = "next"
    /\ state \in TransitionScenes
    /\ next_state[state] = Descr("REPLACE", next_[state])

\* C40: a transition of duration D >= 1 calls replace_state(next) for the
\* first time in its D-th logic() call, never in an earlier one; and when the
\* frame ends with that request, next is on top of the stack in place of the
\* transition, the scenes below are those that were below (so the depth is
\* the same and previous is not put back).
C40_TransitionReplacesAfterDuration ==
    /\ [](\A s \in TransitionScenes :
             /\ tFirst[s] # 0 => tFirst[s] = tDuration[s]
             /\ tCalls[s] >= tDuration[s] => tFirst[s] = tDuration[s])
    /\ [][TransitionApplies =>
             /\ Len(stack') = Len(stack)
             /\ Last(stack') = next_[state]
             /\ Front(stack') = Front(stack)
             /\ Cardinality({i \in DOMAIN stack' : stack'[i] = previous[state]})
                  = Cardinality({i \in DOMAIN Front(stack) : stack[i] = previous[state]})]_vars

\* A transition of three frames, pushed over its previous scene, asked for its
\* next scene in its third logic() call, and the request has been applied.
C40_Witness ==
    \E s \in TransitionScenes :
       /\ tDuration[s] = 3
       /\ tCalls[s] = 3
       /\ tFirst[s] = 3
       /\ applied = Descr("REPLACE", next_[s])
       /\ lpc = "test"
       /\ stack = << previous[s], next_[s] >>

=========================================================================
